---- MODULE Spec2Model ----
(***************************************************************************)
(* Verification model of the permission-gated cross-context network proxy  *)
(* of scriptcat.                                                           *)
(*                                                                         *)
(* Part 1: PermissionVerify (permission_verify.ts) together with the       *)
(* confirm callbacks of the GM api (gm_api.ts): the grant check, the       *)
(* confirmation queue and its worker, the confirmation window handshake    *)
(* with its 40 second timeout, the decision cache and the persistent       *)
(* permission store.                                                       *)
(*                                                                         *)
(* Strings the code inspects character by character (host names, @connect  *)
(* entries) are sequences of one-character strings.  Api names are triples *)
(* <<namespace, separator, identifier>> so that key.replace("_", ".") is   *)
(* computed and not tabulated.                                             *)
(***************************************************************************)
EXTENDS Integers, Sequences, FiniteSets, TLC

(***************************************************************************)
(* Bounds                                                                  *)
(***************************************************************************)
\* number of verify() calls made in one behaviour
MaxCalls == 2

(***************************************************************************)
(* Strings                                                                 *)
(***************************************************************************)
\* String.prototype.endsWith
EndsWith(s, t) ==
  /\ Len(t) <= Len(s)
  /\ SubSeq(s, Len(s) - Len(t) + 1, Len(s)) = t

\* one character of String.prototype.toLowerCase
LowerChar(ch) ==
  CASE ch = "A" -> "a"
    [] ch = "C" -> "c"
    [] ch = "E" -> "e"
    [] ch = "F" -> "f"
    [] ch = "L" -> "l"
    [] ch = "O" -> "o"
    [] ch = "S" -> "s"
    [] OTHER -> ch

\* String.prototype.toLowerCase
toLowerCase(s) == [i \in 1..Len(s) |-> LowerChar(s[i])]

\* host names; "e.c" stands for example.com, "a.e.c" for api.example.com,
\* "o.c" for other.com
HostExample == <<"e", ".", "c">>
HostApiExample == <<"a", ".", "e", ".", "c">>
HostOther == <<"o", ".", "c">>
ConnectStar == <<"*">>
ConnectSelfUpper == <<"S", "e", "l", "f">>
NoHost == <<>>

(***************************************************************************)
(* Api registry: the @PermissionVerify.API decorator                       *)
(***************************************************************************)
GM_xmlhttpRequest == <<"GM", "_", "xmlhttpRequest">>
GM_dot_xmlHttpRequest == <<"GM", ".", "xmlHttpRequest">>
GM_cookie == <<"GM", "_", "cookie">>
GM_openInTab == <<"GM", "_", "openInTab">>
GM_closeInTab == <<"GM", "_", "closeInTab">>
GM_log == <<"GM", "_", "log">>

\* key.replace("_", "."): the first underscore becomes a dot
Dot(key) == IF key[2] = "_" THEN <<key[1], ".", key[3]>> ELSE key

\* the decorated methods with the ApiParam given to the decorator (none of
\* them is declared default)
Declared ==
  { [key |-> GM_xmlhttpRequest, default |-> FALSE, confirm |-> "xhr",
     alias |-> {GM_dot_xmlHttpRequest}, link |-> {}],
    [key |-> GM_cookie, default |-> FALSE, confirm |-> "cookie",
     alias |-> {}, link |-> {}],
    [key |-> GM_openInTab, default |-> FALSE, confirm |-> "none",
     alias |-> {}, link |-> {}],
    [key |-> GM_closeInTab, default |-> FALSE, confirm |-> "none",
     alias |-> {}, link |-> {GM_openInTab}],
    [key |-> GM_log, default |-> FALSE, confirm |-> "none",
     alias |-> {}, link |-> {}] }

\* PermissionVerify.API(param): the entries one decorator puts into apis
API(d) ==
  LET dot == Dot(d.key)
      alias == IF dot # d.key THEN d.alias \cup {dot} ELSE d.alias
      param == [default |-> d.default, confirm |-> d.confirm,
                alias |-> alias, link |-> d.link]
  IN  { [name |-> n, param |-> param] : n \in ({d.key, dot} \cup alias) }

\* PermissionVerify.apis
apis == UNION { API(d) : d \in Declared }

PermissionVerifyApiGet(name) == (CHOOSE e \in apis : e.name = name).param

(***************************************************************************)
(* Scripts and requests                                                    *)
(***************************************************************************)
\* script.metadata of the installed scripts; hasGrant is FALSE when
\* metadata.grant is undefined
Scripts ==
  [ s1 |-> [hasGrant |-> TRUE, grant |-> <<GM_xmlhttpRequest>>,
            connect |-> <<HostExample>>],
    s2 |-> [hasGrant |-> TRUE,
            grant |-> <<GM_dot_xmlHttpRequest, GM_cookie, GM_openInTab>>,
            connect |-> <<ConnectStar>>],
    s3 |-> [hasGrant |-> TRUE, grant |-> <<GM_log, GM_cookie>>,
            connect |-> <<ConnectSelfUpper>>],
    s4 |-> [hasGrant |-> FALSE, grant |-> <<>>, connect |-> <<>>] ]

SenderNone == [url |-> "none", hostname |-> NoHost]
SenderInvalid == [url |-> "invalid", hostname |-> NoHost]

Req(u, a, h, s) == [uuid |-> u, api |-> a, hostname |-> h, sender |-> s]

\* the requests a behaviour draws its verify() calls from
Requests ==
  { Req("s1", GM_xmlhttpRequest, HostApiExample, SenderNone),
    Req("s1", GM_xmlhttpRequest, HostOther, SenderNone),
    Req("s2", GM_dot_xmlHttpRequest, HostApiExample, SenderNone),
    Req("s2", GM_xmlhttpRequest, HostOther, SenderNone),
    Req("s2", GM_cookie, HostApiExample, SenderNone),
    Req("s2", GM_closeInTab, NoHost, SenderNone),
    Req("s3", GM_xmlhttpRequest, HostApiExample, SenderNone),
    Req("s3", GM_cookie, HostOther, SenderInvalid),
    Req("s4", GM_log, NoHost, SenderNone) }

(***************************************************************************)
(* gm_api.ts: getConnectMatched and the confirm callbacks                  *)
(***************************************************************************)
askUnlistedConnect == FALSE
askConnectStar == TRUE

\* variant: the entry has to equal the host name
ConnectEntryMatch_ExactHost(entry, hostname, sender) ==
  LET lowerMetaConnect == toLowerCase(entry)
  IN  IF lowerMetaConnect = <<"s", "e", "l", "f">>
      THEN IF sender.url = "ok" /\ hostname = sender.hostname THEN 3 ELSE 0
      ELSE IF lowerMetaConnect = <<"*">>
      THEN 1
      ELSE IF hostname = lowerMetaConnect
      THEN 2
      ELSE 0

\* what one @connect entry contributes: 0 when the loop goes on
ConnectEntryMatch(entry, hostname, sender) ==
  LET lowerMetaConnect == toLowerCase(entry)
  IN  IF lowerMetaConnect = <<"s", "e", "l", "f">>
      THEN IF sender.url = "ok" /\ hostname = sender.hostname THEN 3 ELSE 0
      ELSE IF lowerMetaConnect = <<"*">>
      THEN 1
      ELSE IF EndsWith(<<".">> \o hostname, <<".">> \o lowerMetaConnect)
      THEN 2
      ELSE 0

RECURSIVE ConnectLoop(_, _, _, _)
ConnectLoop(metadataConnect, i, hostname, sender) ==
  IF i > Len(metadataConnect) THEN 0
  ELSE LET m == ConnectEntryMatch(metadataConnect[i], hostname, sender)
       IN  IF m # 0 THEN m
           ELSE ConnectLoop(metadataConnect, i + 1, hostname, sender)

getConnectMatched(metadataConnect, hostname, sender) ==
  ConnectLoop(metadataConnect, 1, hostname, sender)

\* values a confirm callback produces
ConfirmBool(b) ==
  [kind |-> "bool", val |-> b, permission |-> "", permissionValue |-> NoHost,
   wildcard |-> FALSE, extraCode |-> 0]
ConfirmRefused ==
  [kind |-> "bool", val |-> FALSE, permission |-> "",
   permissionValue |-> NoHost, wildcard |-> FALSE, extraCode |-> 48]
ConfirmThrow ==
  [kind |-> "throw", val |-> FALSE, permission |-> "",
   permissionValue |-> NoHost, wildcard |-> FALSE, extraCode |-> 0]
ConfirmParam(p, v, w) ==
  [kind |-> "param", val |-> FALSE, permission |-> p, permissionValue |-> v,
   wildcard |-> w, extraCode |-> 0]

\* variant: a match by "self" is asked about like a match by "*"
ConfirmFor_SelfAsks(connectMatched, hostname) ==
  LET ask == ConfirmParam("cors", hostname, TRUE)
  IN  IF connectMatched = 1 \/ connectMatched = 3
      THEN IF ~askConnectStar THEN ConfirmBool(TRUE) ELSE ask
      ELSE IF connectMatched > 0 THEN ConfirmBool(TRUE)
      ELSE IF ~askUnlistedConnect THEN ConfirmRefused
      ELSE ask

\* the confirm callback of GM_xmlhttpRequest from the return of
\* getConnectMatched on
ConfirmFor(connectMatched, hostname) ==
  LET ask == ConfirmParam("cors", hostname, TRUE)
  IN  IF connectMatched = 1
      THEN IF ~askConnectStar THEN ConfirmBool(TRUE) ELSE ask
      ELSE IF connectMatched > 0 THEN ConfirmBool(TRUE)
      ELSE IF ~askUnlistedConnect THEN ConfirmRefused
      ELSE ask

\* variant: an unlisted host is refused without the code 0x30
XhrConfirm_NoCode(request) ==
  LET connectMatched ==
        getConnectMatched(Scripts[request.uuid].connect, request.hostname,
                          request.sender)
      ask == ConfirmParam("cors", request.hostname, TRUE)
  IN  IF connectMatched = 1
      THEN IF ~askConnectStar THEN ConfirmBool(TRUE) ELSE ask
      ELSE IF connectMatched > 0 THEN ConfirmBool(TRUE)
      ELSE IF ~askUnlistedConnect THEN ConfirmBool(FALSE)
      ELSE ask

\* the confirm callback of GM_xmlhttpRequest
XhrConfirm(request) ==
  ConfirmFor(getConnectMatched(Scripts[request.uuid].connect,
                               request.hostname, request.sender),
             request.hostname)

\* the confirm callback of GM_cookie
CookieConfirm(request) ==
  IF request.hostname = NoHost THEN ConfirmThrow
  ELSE IF getConnectMatched(Scripts[request.uuid].connect, request.hostname,
                            request.sender) = 0
  THEN ConfirmThrow
  ELSE ConfirmParam("cookie", request.hostname, FALSE)

\* api.param.confirm(request)
ApiConfirm(param, request) ==
  IF param.confirm = "xhr" THEN XhrConfirm(request) ELSE CookieConfirm(request)

(***************************************************************************)
(* Decision cache, cache keys and the permission store                     *)
(***************************************************************************)
Wild == <<"*">>

\* CacheKey.permissionConfirm(scriptUuid, confirm)
permissionConfirm(scriptUuid, confirm) ==
  <<scriptUuid, confirm.permission, confirm.permissionValue>>

\* PermissionDAO.key(model)
DAOKey(model) == <<model.uuid, model.permission, model.permissionValue>>

\* PermissionDAO.findByKey: the records stored under the key
findByKey(st, uuid, permission, permissionValue) ==
  { m \in st : DAOKey(m) = <<uuid, permission, permissionValue>> }

\* PermissionDAO.save(model)
DAOSave(st, model) == { m \in st : DAOKey(m) # DAOKey(model) } \cup {model}

\* PermissionDAO.update(key, model)
DAOUpdate(st, key, model) == { m \in st : DAOKey(m) # key } \cup {model}

\* Cache.get(key): the set of values cached under the key (empty or one)
CacheGet(ch, key) == { e.model : e \in { x \in ch : x.key = key } }

\* Cache.set(key, value)
CacheSet(ch, key, model) ==
  { x \in ch : x.key # key } \cup {[key |-> key, model |-> model]}

(***************************************************************************)
(* State                                                                   *)
(***************************************************************************)
VARIABLES
  calls,         \* the verify() calls made so far, in call order
  confirmQueue,  \* PermissionVerify.confirmQueue.list (call ids)
  worker,        \* position of the dealConfirmQueue loop
  confirmMap,    \* PermissionVerify.confirmMap
  timers,        \* confirmation ids whose 40 s timeout is armed
  nextUuid,      \* next confirmation id uuidv4() hands out
  cache,         \* Cache.getInstance()
  store,         \* PermissionDAO
  pushLog,       \* history: call ids in the order they were pushed
  allScope       \* history: <<script, permission>> answered allow-all

permVars ==
  <<calls, confirmQueue, worker, confirmMap, timers, nextUuid, cache, store,
    pushLog, allScope>>

\* Part 2: one evaluation of getConnectMatched
VARIABLES
  cm             \* the arguments of the evaluation and its result

connectVars == <<cm>>

\* Part 3: GM_xmlhttpRequest, the request correlator and the header rules
VARIABLES
  xhr,                \* the GM_xmlhttpRequest calls made so far, in call order
  xhrReqEntries,      \* Map stdUrl -> pending correlation entry
  scXhrRequests,      \* Map markerID -> requestId and requestId -> markerID
  redirectedUrls,     \* Map markerID -> url
  headersReceivedMap, \* Map markerID -> status and headers of the response
  headerModifierMap,  \* Map markerID -> {rule, redirectNotManual}
  sessionRules,       \* the session rules of chrome.declarativeNetRequest
  gmXhrRequestId,     \* the counter cacheInstance.incr("gmXhrRequestId", 1)
  tasks,              \* stackAsyncTask: per key, the calls queued or running
  now                 \* Date.now()

netVars ==
  <<xhr, xhrReqEntries, scXhrRequests, redirectedUrls, headersReceivedMap,
    headerModifierMap, sessionRules, gmXhrRequestId, tasks, now>>

\* the state the permission part leaves alone
\* Part 4: the header operations of buildDNRRule as a function of its inputs
VARIABLES
  dnr            \* the inputs of the evaluation and its result

\* Part 5: the chunk messages of onDataReceived as a function of its payload
VARIABLES
  tx             \* the payload handed to onDataReceived and the messages sent

\* Part 6: FetchXHR and the messages of one request to its caller
VARIABLES
  fx,            \* the FetchXHR object of the request and the events it emitted
  conn           \* the callback state, the message tasks and the messages sent

\* Part 7: the result fields the service worker adds to the event messages
VARIABLES
  rp             \* per call: the variables behind the getters of resultParam

\* Part 8: dataEncode and dataDecode as functions of the value
VARIABLES
  cd             \* the value, its encoded form and the decoded value

\* Part 9: the order of the messages of backgroundXhrAPI
VARIABLES
  bx             \* the events of the request, the reads under way, the messages

\* Part 10: the callback of xmlhttpRequestFn in native mode
VARIABLES
  nx             \* the events received, the deferred event, the events forwarded

\* Part 11: ExtTimer and its AsyncQueue
VARIABLES
  et             \* the timers, the heap, the queue, the jobs and the clock

\* Part 12: the confirm signal and the management of the decisions
VARIABLES
  mg             \* the reply to the last signal, the management call under way

moreVars == <<cd, bx, nx, et, mg>>

restVars == <<dnr, tx, fx, conn, rp, moreVars>>

otherVars == <<connectVars, netVars, restVars>>

vars == <<permVars, otherVars>>

Idle == [pc |-> "pop", cur |-> 0, uuid |-> 0, allow |-> FALSE, type |-> 0]

\* the decisions an earlier session has persisted
InitStore ==
  { [uuid |-> "s2", permission |-> "cookie", permissionValue |-> Wild,
     allow |-> FALSE] }

PermInit ==
  /\ calls = <<>>
  /\ confirmQueue = <<>>
  /\ worker = Idle
  /\ confirmMap = {}
  /\ timers = {}
  /\ nextUuid = 1
  /\ cache = {}
  /\ store = InitStore
  /\ pushLog = <<>>
  /\ allScope = {}

\* no evaluation of getConnectMatched is under way
NoEval == [list |-> <<>>, defined |-> FALSE, url |-> NoHost,
           sender |-> SenderNone, done |-> FALSE, out |-> 0,
           confirm |-> ConfirmBool(FALSE)]

ConnectIdle == cm = NoEval

\* the module-level maps of gm_api.ts are created empty
NetEmpty ==
  /\ xhr = <<>>
  /\ xhrReqEntries = <<>>
  /\ scXhrRequests = <<>>
  /\ redirectedUrls = <<>>
  /\ headersReceivedMap = <<>>
  /\ headerModifierMap = <<>>
  /\ sessionRules = {}
  /\ gmXhrRequestId = 0
  /\ tasks = <<>>

NetIdle == NetEmpty /\ now = 0

\* nothing has been evaluated
MoreIdle == cd = <<>> /\ bx = <<>> /\ nx = <<>> /\ et = <<>> /\ mg = <<>>

RestIdle == dnr = <<>> /\ tx = <<>> /\ fx = <<>> /\ conn = <<>> /\ rp = <<>> /\ MoreIdle

Init ==
  /\ PermInit
  /\ ConnectIdle
  /\ NetIdle
  /\ RestIdle

(***************************************************************************)
(* PermissionVerify.verify and pushConfirmQueue                            *)
(***************************************************************************)
\* variant: the alias test checks that an alias list exists
GrantNameMatches_AliasTruthy(grantName, apiName, param) ==
  \/ grantName = apiName
  \/ param.alias # {}
  \/ grantName \in param.link

\* the condition of the grant loop of verify, for one grant name
GrantNameMatches(grantName, apiName, param) ==
  \/ grantName = apiName
  \/ grantName \in param.alias
  \/ grantName \in param.link

\* some entry of the grant list passes the loop condition
GrantMatched(grant, apiName, param) ==
  \E i \in 1..Len(grant) : GrantNameMatches(grant[i], apiName, param)

NoConfirm == ConfirmBool(TRUE)

NewCall(request, st, conf, res) ==
  [req |-> request, st |-> st, conf |-> conf, res |-> res, prompts |-> 0,
   late |-> (conf.kind = "param"
             /\ <<request.uuid, conf.permission>> \in allScope)]

\* verify(request, api) up to its first suspension
Verify(request) ==
  LET param == PermissionVerifyApiGet(request.api)
      script == Scripts[request.uuid]
      conf == ApiConfirm(param, request)
  IN  /\ Len(calls) < MaxCalls
      /\ calls' = Append(calls,
           IF param.default THEN NewCall(request, "done", NoConfirm, "true")
           ELSE IF ~script.hasGrant
           THEN NewCall(request, "done", NoConfirm, "grant is undefined")
           ELSE IF ~GrantMatched(script.grant, request.api, param)
           THEN NewCall(request, "done", NoConfirm, "permission not requested")
           ELSE IF param.confirm = "none"
           THEN NewCall(request, "done", NoConfirm, "true")
           ELSE IF conf.kind = "throw"
           THEN NewCall(request, "done", NoConfirm, "confirm callback error")
           ELSE NewCall(request, "confirmFn", conf, "none"))
      /\ UNCHANGED <<confirmQueue, worker, confirmMap, timers, nextUuid,
                     cache, store, pushLog, allScope>>
      /\ UNCHANGED otherVars

\* variant: the item is put at the front of the list
QueuePush_Front(list, data) == <<data>> \o list

\* Queue.push(data)
QueuePush(list, data) == Append(list, data)

\* pushConfirmQueue after `await api.param.confirm(request)`
PushConfirmQueue(c) ==
  /\ c \in 1..Len(calls)
  /\ calls[c].st = "confirmFn"
  /\ IF calls[c].conf.kind = "bool" /\ calls[c].conf.val
     THEN /\ calls' = [calls EXCEPT ![c].st = "done", ![c].res = "true"]
          /\ UNCHANGED <<confirmQueue, pushLog>>
     ELSE /\ calls' = [calls EXCEPT ![c].st = "queued"]
          /\ confirmQueue' = QueuePush(confirmQueue, c)
          /\ pushLog' = Append(pushLog, c)
  /\ UNCHANGED <<worker, confirmMap, timers, nextUuid, cache, store,
                 allScope>>
  /\ UNCHANGED otherVars

(***************************************************************************)
(* dealConfirmQueue, confirm, confirmWindow, userConfirm                   *)
(***************************************************************************)
\* variant: the loop goes on without awaiting confirm
CanPop_NoAwait(w) == w.pc \in {"pop", "window"}

\* dealConfirmQueue takes the next item only from its `await pop()`
CanPop(w) == w.pc = "pop"

\* Queue.pop(): the item handed out and the list left behind
QueueFront(list) == Head(list)
QueueRest(list) == Tail(list)

DealPop ==
  /\ CanPop(worker)
  /\ confirmQueue # <<>>
  /\ worker' = [Idle EXCEPT !.pc = "confirm", !.cur = QueueFront(confirmQueue)]
  /\ confirmQueue' = QueueRest(confirmQueue)
  /\ calls' = [calls EXCEPT ![QueueFront(confirmQueue)].st = "processing"]
  /\ UNCHANGED <<confirmMap, timers, nextUuid, cache, store,
                 pushLog, allScope>>
  /\ UNCHANGED otherVars

\* variant: the wildcard record is never looked up
StoreLookup_NoWild(st, uuid, confirm) ==
  findByKey(st, uuid, confirm.permission, confirm.permissionValue)

\* the callback given to Cache.getOrSet in confirm: the store lookup
StoreLookup(st, uuid, confirm) ==
  LET model == findByKey(st, uuid, confirm.permission, confirm.permissionValue)
  IN  IF model = {} /\ confirm.wildcard
      THEN findByKey(st, uuid, confirm.permission, Wild)
      ELSE model

\* Cache.getOrSet(cacheKey, callback): the value returned (empty or one)
GetOrSet(ch, st, uuid, confirm) ==
  LET hit == CacheGet(ch, permissionConfirm(uuid, confirm))
  IN  IF hit # {} THEN hit ELSE StoreLookup(st, uuid, confirm)

\* the outcome of confirm for a decision that was found
DecisionResult(ret) == IF ret.allow THEN "true" ELSE "permission denied"

\* variant: no try/catch, a rejected confirm ends the loop
AfterSettle_NoCatch(outcome) ==
  IF outcome = "reject" THEN [Idle EXCEPT !.pc = "stopped"] ELSE Idle

\* where the loop goes after data.resolve / data.reject
AfterSettle(outcome) == Idle

Settle(c, res) == [calls EXCEPT ![c].st = "done", ![c].res = res]

\* confirm(request, confirm) up to the opening of the window
DealConfirm ==
  LET c == worker.cur
      confirm == calls[c].conf
      uuid == calls[c].req.uuid
      ret == GetOrSet(cache, store, uuid, confirm)
  IN  /\ worker.pc = "confirm"
      /\ IF confirm.kind = "bool"
         THEN /\ calls' = Settle(c, IF confirm.val THEN "true" ELSE "false")
              /\ worker' = AfterSettle("resolve")
              /\ UNCHANGED <<confirmMap, timers, nextUuid, cache>>
         ELSE IF ret # {}
         THEN LET found == CHOOSE m \in ret : TRUE
              IN  /\ calls' = Settle(c, DecisionResult(found))
                  /\ worker' = AfterSettle(IF found.allow THEN "resolve"
                                           ELSE "reject")
                  /\ cache' = CacheSet(cache, permissionConfirm(uuid, confirm),
                                       found)
                  /\ UNCHANGED <<confirmMap, timers, nextUuid>>
         ELSE \* confirmWindow(script, confirm)
              /\ confirmMap' = confirmMap \cup {[uuid |-> nextUuid, call |-> c]}
              /\ timers' = timers \cup {nextUuid}
              /\ nextUuid' = nextUuid + 1
              /\ worker' = [worker EXCEPT !.pc = "window", !.uuid = nextUuid]
              /\ calls' = [calls EXCEPT ![c].prompts = @ + 1]
              /\ UNCHANGED cache
      /\ UNCHANGED <<confirmQueue, store, pushLog, allScope>>
      /\ UNCHANGED otherVars

\* answers the confirmation page can send: a choice of type 1..5, allowed
\* or not, and type 0 when the page is closed without a choice
Answers ==
  {[allow |-> FALSE, type |-> 0]} \cup [allow : BOOLEAN, type : 1..5]

\* variant: resolve leaves the timeout armed
ClearTimeout_Keep(ts, u) == ts

\* the resolve stored in confirmMap: clearTimeout(timeout)
ClearTimeout(ts, u) == ts \ {u}

\* userConfirm(data), the handler of the "confirm" message: what it does to
\* the state of PermissionVerify
UserConfirmEffect(u, answer) ==
  IF \E e \in confirmMap : e.uuid = u
  THEN /\ confirmMap' = { e \in confirmMap : e.uuid # u }
       /\ timers' = ClearTimeout(timers, u)
       /\ worker' = IF worker.pc = "window" /\ worker.uuid = u
                    THEN [worker EXCEPT !.pc = "answered",
                                        !.allow = answer.allow,
                                        !.type = answer.type]
                    ELSE worker
       /\ allScope' =
            IF answer.allow /\ answer.type \in {2, 4}
            THEN allScope \cup
                 { <<calls[e.call].req.uuid, calls[e.call].conf.permission>> :
                   e \in { x \in confirmMap :
                           x.uuid = u /\ calls[x.call].conf.wildcard } }
            ELSE allScope
       /\ UNCHANGED <<calls, confirmQueue, nextUuid, cache, store, pushLog>>
  ELSE \* "confirm not found", or ignored for type 0: nothing changes
       UNCHANGED permVars

\* the "confirm" message is handled
UserConfirm(u, answer) ==
  /\ UserConfirmEffect(u, answer)
  /\ UNCHANGED otherVars

\* the setTimeout callback of confirmWindow, 40 s after the window opened
ConfirmTimeout(u) ==
  /\ u \in timers
  /\ timers' = timers \ {u}
  /\ confirmMap' = { e \in confirmMap : e.uuid # u }
  /\ worker' = IF worker.pc = "window" /\ worker.uuid = u
               THEN [worker EXCEPT !.pc = "timedout"]
               ELSE worker
  /\ UNCHANGED <<calls, confirmQueue, nextUuid, cache, store,
                 pushLog, allScope>>
  /\ UNCHANGED otherVars

\* the catch of dealConfirmQueue after the window promise was rejected
DealTimedOut ==
  /\ worker.pc = "timedout"
  /\ calls' = Settle(worker.cur, "permission confirm timeout")
  /\ worker' = AfterSettle("reject")
  /\ UNCHANGED <<confirmQueue, confirmMap, timers, nextUuid, cache, store,
                 pushLog, allScope>>
  /\ UNCHANGED otherVars

\* model.permissionValue chosen by the switch on userConfirm.type
ModelValue(type, confirm) ==
  IF type \in {4, 2} THEN Wild
  ELSE IF type \in {5, 3} THEN confirm.permissionValue
  ELSE NoHost

\* variant: every answer is cached
IsCached_Once(type) == type >= 1

\* "if (userConfirm.type >= 2)": the decision goes to the cache
IsCached(type) == type >= 2

\* variant: temporary answers are persisted as well
IsPersisted_Temp(type) == type >= 2

\* "if (userConfirm.type >= 4)": the decision goes to the store
IsPersisted(type) == type >= 4

\* the model confirm builds from the user's answer
AnswerModel(w) ==
  [uuid |-> calls[w.cur].req.uuid,
   permission |-> calls[w.cur].conf.permission,
   permissionValue |-> ModelValue(w.type, calls[w.cur].conf),
   allow |-> w.allow]

AnswerResult(allow) == IF allow THEN "true" ELSE "permission not allowed"

\* confirm after confirmWindow resolved, up to the store access
DealAnswered ==
  LET c == worker.cur
      model == AnswerModel(worker)
      cacheKey == permissionConfirm(calls[c].req.uuid, calls[c].conf)
  IN  /\ worker.pc = "answered"
      /\ cache' = IF IsCached(worker.type) THEN CacheSet(cache, cacheKey, model)
                  ELSE cache
      /\ IF IsPersisted(worker.type)
         THEN /\ worker' = [worker EXCEPT !.pc = "persist"]
              /\ UNCHANGED calls
         ELSE /\ calls' = Settle(c, AnswerResult(worker.allow))
              /\ worker' = AfterSettle(IF worker.allow THEN "resolve"
                                       ELSE "reject")
      /\ UNCHANGED <<confirmQueue, confirmMap, timers, nextUuid, store,
                     pushLog, allScope>>
      /\ UNCHANGED otherVars

\* the store write of confirm: save a new record, update an existing one
PersistModel(st, model) ==
  LET oldConfirm == findByKey(st, model.uuid, model.permission,
                              model.permissionValue)
  IN  IF oldConfirm = {} THEN DAOSave(st, model)
      ELSE DAOUpdate(st, DAOKey(model), model)

DealPersist ==
  /\ worker.pc = "persist"
  /\ store' = PersistModel(store, AnswerModel(worker))
  /\ calls' = Settle(worker.cur, AnswerResult(worker.allow))
  /\ worker' = AfterSettle(IF worker.allow THEN "resolve" ELSE "reject")
  /\ UNCHANGED <<confirmQueue, confirmMap, timers, nextUuid, cache,
                 pushLog, allScope>>
  /\ UNCHANGED otherVars

\* the answers tried with a confirmation id: every answer when the id is
\* pending; otherwise one of type 0 and one of another type, the only
\* distinction userConfirm makes for an id it does not find
SignalAnswers(u) ==
  IF \E e \in confirmMap : e.uuid = u THEN Answers
  ELSE {[allow |-> FALSE, type |-> 0], [allow |-> TRUE, type |-> 1]}

\* confirmation ids a "confirm" message may carry: the ids handed out so
\* far and one that never was
Uuids == 1..nextUuid

Next ==
  \/ \E request \in Requests : Verify(request)
  \/ \E c \in 1..MaxCalls : PushConfirmQueue(c)
  \/ DealPop
  \/ DealConfirm
  \/ \E u \in Uuids : \E answer \in SignalAnswers(u) : UserConfirm(u, answer)
  \/ \E u \in Uuids : ConfirmTimeout(u)
  \/ DealTimedOut
  \/ DealAnswered
  \/ DealPersist

Spec == Init /\ [][Next]_vars

(***************************************************************************)
(* Properties                                                              *)
(***************************************************************************)
CallIds == 1..Len(calls)

Range(seq) == { seq[i] : i \in 1..Len(seq) }

\* the capability names that authorise the api of a request
Authorising(request) ==
  {request.api} \cup PermissionVerifyApiGet(request.api).alias
                \cup PermissionVerifyApiGet(request.api).link

\* the api is not default and the grant list names none of its capabilities
GrantLacking(request) ==
  /\ ~PermissionVerifyApiGet(request.api).default
  /\ Scripts[request.uuid].hasGrant
  /\ Range(Scripts[request.uuid].grant) \cap Authorising(request) = {}

\* C1: a verify call for an api that is not default, by a script whose grant
\* list holds neither the api name nor an alias nor a link of it, has failed
\* with "permission not requested"; it was never pushed onto the confirmation
\* queue and no confirmation window was opened for it.
C1_GrantMissing ==
  \A c \in CallIds :
    GrantLacking(calls[c].req) =>
      /\ calls[c].st = "done"
      /\ calls[c].res = "permission not requested"
      /\ calls[c].prompts = 0
      /\ c \notin Range(pushLog)
      /\ c \notin Range(confirmQueue)
      /\ \A e \in confirmMap : e.call # c

\* a script without the grant asked for an api that needs confirmation
C1_Witness ==
  \E c \in CallIds :
    /\ GrantLacking(calls[c].req)
    /\ PermissionVerifyApiGet(calls[c].req.api).confirm # "none"
    /\ calls[c].res = "permission not requested"

\* C2: at most one confirmation is shown and awaiting an answer.
C2_OnePending == Cardinality(confirmMap) <= 1

\* a window is open while another request waits in the queue
C2_Witness ==
  /\ Cardinality(confirmMap) = 1
  /\ \E c \in CallIds : calls[c].st = "queued" /\ calls[c].conf.kind = "param"

\* C3: confirmation requests are processed in the order they were pushed,
\* one at a time: when the processing of a request has started, every
\* request pushed before it is settled.
C3_Fifo ==
  \A i \in 1..Len(pushLog) : \A j \in 1..Len(pushLog) :
    (i < j /\ calls[pushLog[j]].st \in {"processing", "done"})
      => calls[pushLog[i]].st = "done"

\* two requests were pushed in the reverse of their call order and the one
\* pushed second is being processed
C3_Witness ==
  /\ Len(pushLog) >= 2
  /\ pushLog[1] > pushLog[2]
  /\ calls[pushLog[2]].st = "processing"
  /\ calls[pushLog[1]].prompts = 1

\* the decisions that cover a request: cached under its key, stored under
\* its key, or stored under the wildcard when the confirmation allows it
Decisions(ch, st, c) ==
  LET confirm == calls[c].conf
      uuid == calls[c].req.uuid
  IN  { e.model : e \in { x \in ch :
            x.key = <<uuid, confirm.permission, confirm.permissionValue>> } }
      \cup { m \in st : /\ m.uuid = uuid
                        /\ m.permission = confirm.permission
                        /\ \/ m.permissionValue = confirm.permissionValue
                           \/ confirm.wildcard /\ m.permissionValue = Wild }

\* the worker is about to run confirm for a confirmation parameter
AtConfirm ==
  /\ worker.pc = "confirm"
  /\ worker' # worker
  /\ calls[worker.cur].conf.kind = "param"

\* C4: when confirm finds a decision for the request in the cache or the
\* store (under the wildcard too if the confirmation allows it), it opens no
\* window and settles the request: with true only if a found decision
\* allows, with "permission denied" only if a found decision denies.
C4_FoundDecision ==
  [][ (AtConfirm /\ Decisions(cache, store, worker.cur) # {}) =>
        /\ confirmMap' = confirmMap
        /\ timers' = timers
        /\ calls'[worker.cur].prompts = calls[worker.cur].prompts
        /\ calls'[worker.cur].st = "done"
        /\ calls'[worker.cur].res \in {"true", "permission denied"}
        /\ calls'[worker.cur].res = "true" =>
             \E d \in Decisions(cache, store, worker.cur) : d.allow
        /\ calls'[worker.cur].res = "permission denied" =>
             \E d \in Decisions(cache, store, worker.cur) : ~d.allow
    ]_vars

\* a request was allowed without a window from a stored wildcard decision
\* that an earlier request with another value had obtained
C4_Witness ==
  \E c \in CallIds :
    /\ calls[c].st = "done"
    /\ calls[c].conf.wildcard
    /\ calls[c].prompts = 0
    /\ calls[c].res = "true"
    /\ \E m \in store : /\ m.uuid = calls[c].req.uuid
                        /\ m.permission = calls[c].conf.permission
                        /\ m.permissionValue = Wild
                        /\ m.allow
    /\ \A m \in store : m.permissionValue # calls[c].conf.permissionValue

\* the worker is about to handle the answer of the user
AtAnswered == worker.pc = "answered" /\ worker' # worker

\* C5: an allow-once answer (type 1) makes the request return true and
\* writes nothing to the cache or the store; a request for which no decision
\* is cached or stored opens a confirmation, also after an allow-once answer
\* for the same script, permission and value.
C5_AllowOnce ==
  /\ [][ (AtAnswered /\ worker.type = 1 /\ worker.allow) =>
           /\ cache' = cache
           /\ store' = store
           /\ calls'[worker.cur].st = "done"
           /\ calls'[worker.cur].res = "true" ]_vars
  /\ [][ (AtConfirm /\ Decisions(cache, store, worker.cur) = {}) =>
           /\ calls'[worker.cur].prompts = calls[worker.cur].prompts + 1
           /\ \E e \in confirmMap' : e.call = worker.cur ]_vars

\* the same request was made twice; the first was allowed once and the
\* second was shown to the user again
C5_Witness ==
  \E c \in CallIds : \E d \in CallIds :
    /\ c # d
    /\ calls[c].req = calls[d].req
    /\ calls[c].st = "done" /\ calls[c].res = "true" /\ calls[c].prompts = 1
    /\ cache = {}
    /\ store = InitStore
    /\ calls[d].prompts = 1
    /\ \E e \in confirmMap : e.call = d

\* the model of the answer the worker holds
HeldModel ==
  [uuid |-> calls[worker.cur].req.uuid,
   permission |-> calls[worker.cur].conf.permission,
   permissionValue |-> IF worker.type \in {2, 4} THEN Wild
                       ELSE calls[worker.cur].conf.permissionValue,
   allow |-> worker.allow]

HeldCacheKey ==
  <<calls[worker.cur].req.uuid, calls[worker.cur].conf.permission,
    calls[worker.cur].conf.permissionValue>>

\* C6: a temporary answer (type 2, 3) is written to the cache and never to
\* the store; a permanent answer (type 4, 5) is written to both; the store
\* changes on no other occasion and holds one record per key, the record of
\* the latest permanent answer for that key.
C6_TempAndPermanent ==
  /\ [][ (AtAnswered /\ worker.type \in {2, 3}) =>
           /\ [key |-> HeldCacheKey, model |-> HeldModel] \in cache'
           /\ store' = store
           /\ worker'.pc = "pop" ]_vars
  /\ [][ (AtAnswered /\ worker.type \in {4, 5}) =>
           /\ [key |-> HeldCacheKey, model |-> HeldModel] \in cache'
           /\ worker'.pc = "persist" ]_vars
  /\ [][ (worker.pc = "persist" /\ worker' # worker) =>
           /\ worker.type \in {4, 5}
           /\ HeldModel \in store'
           /\ [key |-> HeldCacheKey, model |-> HeldModel] \in cache' ]_vars
  /\ [][ store' # store => (worker.pc = "persist" /\ worker.type \in {4, 5})
     ]_vars
  /\ [](\A m \in store : \A n \in store :
          (/\ m.uuid = n.uuid
           /\ m.permission = n.permission
           /\ m.permissionValue = n.permissionValue) => m = n)

\* a permanent answer replaced the record an earlier session had stored
\* under the same key, and a temporary answer is in the cache only
C6_Witness ==
  /\ [uuid |-> "s2", permission |-> "cookie", permissionValue |-> Wild,
      allow |-> TRUE] \in store
  /\ \E e \in cache : e.model \notin store /\ e.model.permissionValue # Wild

\* C7: after an allow-all answer (type 2 or 4) to a confirmation that
\* allows the wildcard, no request the same script makes later for that
\* permission, whatever its value, is shown to the user.
C7_WildcardCovers ==
  \A c \in CallIds : calls[c].late => calls[c].prompts = 0

\* the confirm handler finds the confirmation id pending
PendingSignal(u) == \E e \in confirmMap : e.uuid = u

\* C8: when the timeout of a pending confirmation fires, its entry leaves
\* confirmMap and the request fails with "permission confirm timeout"; when
\* the confirm signal comes first, it resolves the wait and clears the
\* timeout, the request does not fail with the timeout, and a timeout is
\* armed for pending confirmations only.
C8_TimeoutOrSignal ==
  /\ [][ (/\ worker.pc = "window"
          /\ worker.uuid \in timers
          /\ worker.uuid \notin timers') =>
           /\ ~PendingSignal(worker.uuid)'
           /\ worker'.pc \in {"answered", "timedout"}
           /\ worker'.cur = worker.cur ]_vars
  /\ [][ (worker.pc = "timedout" /\ worker' # worker) =>
           /\ calls'[worker.cur].st = "done"
           /\ calls'[worker.cur].res = "permission confirm timeout" ]_vars
  /\ [][ (worker.pc = "window" /\ worker'.pc = "answered") =>
           /\ worker.uuid \notin timers'
           /\ ~PendingSignal(worker.uuid)' ]_vars
  /\ [][ (worker.pc \in {"answered", "persist"} /\ worker' # worker) =>
           calls'[worker.cur].res # "permission confirm timeout" ]_vars
  /\ [](\A u \in timers : PendingSignal(u))

\* one confirmation timed out and another was answered
C8_Witness ==
  /\ \E c \in CallIds : calls[c].res = "permission confirm timeout"
  /\ worker.pc = "answered"
  /\ timers = {}

(***************************************************************************)
(* Progress: the event loop runs every continuation that is ready, and an  *)
(* armed timeout fires unless it is cleared.                               *)
(***************************************************************************)
\* one turn of the dealConfirmQueue loop; the loop is sequential, at most
\* one of its steps is enabled
DealConfirmQueue ==
  \/ DealPop
  \/ DealConfirm
  \/ DealAnswered
  \/ DealPersist
  \/ DealTimedOut

LiveSpec ==
  /\ Init
  /\ [][Next]_vars
  /\ WF_vars(DealConfirmQueue)
  /\ WF_vars(\E u \in Uuids : ConfirmTimeout(u))

\* C9: every request pushed onto the confirmation queue is eventually
\* settled, whatever the outcome of the confirmations before it.
C9_QueueDrains ==
  \A c \in 1..MaxCalls :
    (c \in CallIds /\ calls[c].st = "queued")
      ~> (c \in CallIds /\ calls[c].st = "done")

\* a request was settled after the confirmation before it had failed
C9_Witness ==
  /\ Len(pushLog) >= 2
  /\ calls[pushLog[1]].res \in {"permission confirm timeout",
                                "permission not allowed",
                                "permission denied"}
  /\ calls[pushLog[2]].st = "done"

\* the scenario request: script s1 (grant GM_xmlhttpRequest, connect
\* example.com) asks for a url on api.example.com
ScenarioRequest(request) ==
  /\ request.uuid = "s1"
  /\ request.api = GM_xmlhttpRequest
  /\ request.hostname = HostApiExample

\* C10 as stated: the first scenario request is confirmed once and the
\* answer is what settles it.
C10_ScenarioPrompts ==
  \A c \in CallIds :
    (ScenarioRequest(calls[c].req) /\ calls[c].st = "done"
       /\ \A d \in 1..(c - 1) : ~ScenarioRequest(calls[d].req))
      => calls[c].prompts = 1

\* C10 amended: the scenario request matches @connect by the suffix rule
\* and is therefore allowed without any confirmation: it is never queued
\* nor shown to the user, it returns true, and no decision of the script is
\* cached or persisted; the same holds for a second request to the host.
C10_ScenarioNoPrompt ==
  /\ getConnectMatched(Scripts["s1"].connect, HostApiExample, SenderNone) = 2
  /\ \A c \in CallIds :
       ScenarioRequest(calls[c].req) =>
         /\ calls[c].st \in {"confirmFn", "done"}
         /\ calls[c].st = "done" => calls[c].res = "true"
         /\ calls[c].prompts = 0
         /\ c \notin Range(pushLog)
         /\ \A m \in store : m.uuid # "s1"
         /\ \A e \in cache : e.model.uuid # "s1"

\* the scenario request was made twice and both calls have returned
C10_Witness ==
  /\ Len(calls) >= 2
  /\ ScenarioRequest(calls[1].req) /\ calls[1].res = "true"
  /\ ScenarioRequest(calls[2].req) /\ calls[2].res = "true"

(***************************************************************************)
(* Part 2: getConnectMatched as a function of its arguments                *)
(***************************************************************************)
\* number of entries of metadata.connect
MaxConnect == 2

\* "A.E.C" stands for API.Example.COM, "ae.c" for apiexample.com (and, next
\* to "e.c", for myapple.com next to apple.com), "E.C" for EXAMPLE.COM
HostApiUpper == <<"A", ".", "E", ".", "C">>
HostApiexample == <<"a", "e", ".", "c">>
ConnectExampleUpper == <<"E", ".", "C">>

\* new URL(url).hostname: the parser lower-cases the host
URLHostname(raw) == toLowerCase(raw)

\* a sender whose url parses and has host h
SenderAt(h) == [url |-> "ok", hostname |-> URLHostname(h)]

ConnectEntries ==
  { ConnectStar, ConnectSelfUpper, HostExample, ConnectExampleUpper,
    HostApiExample, HostApiexample, HostOther }

ConnectLists == UNION { [1..n -> ConnectEntries] : n \in 0..MaxConnect }

ConnectUrls ==
  { HostApiExample, HostApiUpper, HostApiexample, HostExample, HostOther }

ConnectSenders ==
  { SenderNone, SenderInvalid, SenderAt(HostApiExample), SenderAt(HostOther) }

\* getConnectMatched(metadataConnect, reqURL, sender) with metadataConnect
\* possibly undefined
getConnectMatchedOf(defined, metadataConnect, url, sender) ==
  IF defined /\ Len(metadataConnect) # 0
  THEN getConnectMatched(metadataConnect, URLHostname(url), sender)
  ELSE 0

ConnectInit ==
  /\ PermInit
  /\ NetIdle
  /\ RestIdle
  /\ cm \in { e \in [list : ConnectLists, defined : BOOLEAN,
                     url : ConnectUrls, sender : ConnectSenders,
                     done : {FALSE}, out : {0},
                     confirm : {ConfirmBool(FALSE)}] :
              ~e.defined => e.list = <<>> }

\* the confirm callback of GM_xmlhttpRequest is called for the request
EvalConnect ==
  LET connectMatched ==
        getConnectMatchedOf(cm.defined, cm.list, cm.url, cm.sender)
  IN  /\ ~cm.done
      /\ cm' = [cm EXCEPT !.done = TRUE,
                          !.out = connectMatched,
                          !.confirm = ConfirmFor(connectMatched,
                                                 URLHostname(cm.url))]
  /\ UNCHANGED <<permVars, netVars, restVars>>

ConnectNext == EvalConnect

ConnectSpec == ConnectInit /\ [][ConnectNext]_vars

\* the match the specification describes for one entry
EntryMatches(entry, url, sender) ==
  LET e == toLowerCase(entry)
      h == toLowerCase(url)
  IN  \/ e = <<"*">>
      \/ e = h
      \/ /\ Len(e) < Len(h)
         /\ SubSeq(h, Len(h) - Len(e) + 1, Len(h)) = e
         /\ h[Len(h) - Len(e)] = "."
      \/ /\ e = <<"s", "e", "l", "f">>
         /\ sender.url = "ok"
         /\ sender.hostname = h

\* C11: getConnectMatched reports a match exactly when some entry of the
\* list, compared without regard to case, is "*", equals the request host
\* or is a suffix of it at a label boundary, or is "self" with a sender url
\* that parses and has the host of the request; an undefined or empty list
\* gives no match, and the evaluation always ends with a result.
C11_MatchExactly ==
  cm.done =>
    /\ cm.out \in 0..3
    /\ cm.out # 0 <=>
         /\ cm.defined
         /\ \E i \in 1..Len(cm.list) :
              EntryMatches(cm.list[i], cm.url, cm.sender)

\* "self" of a sender on another host does not match, the next entry
\* matches as a suffix although the cases differ
C11_Witness ==
  /\ cm.done
  /\ cm.out = 2
  /\ cm.url = HostApiUpper
  /\ cm.list = <<ConnectSelfUpper, ConnectExampleUpper>>
  /\ cm.sender = SenderAt(HostOther)

\* an entry that is a suffix but not at a label boundary gives no match
C11_WitnessNoBoundary ==
  /\ cm.done
  /\ cm.out = 0
  /\ cm.url = HostApiexample
  /\ cm.list = <<ConnectSelfUpper, HostExample>>
  /\ cm.sender = SenderInvalid

(***************************************************************************)
(* Part 3: GM_xmlhttpRequest (gm_api.ts): the header rule of a request,    *)
(* the correlation of a request with the platform's request id, and the    *)
(* webRequest listeners of handlerGmXhr.                                   *)
(***************************************************************************)
\* number of GM_xmlhttpRequest calls made in one behaviour
MaxXhr == 2
\* number of redirects the platform follows for one request
MaxRedirects == 1

\* the state the network part leaves alone
nonNetVars == <<permVars, connectVars, restVars>>

\* JavaScript Map: has, set, delete
MapHas(m, k) == k \in DOMAIN m
MapSet(m, k, v) == [x \in (DOMAIN m) \cup {k} |-> IF x = k THEN v ELSE m[x]]
MapDelete(m, k) == [x \in (DOMAIN m) \ {k} |-> m[x]]

\* urls are <<host, path, hash>>
UrlA == <<HostApiExample, "/p", "">>
UrlAHash == <<HostApiExample, "/p", "#h">>
UrlB == <<HostExample, "/q", "">>
UrlRefused == <<HostOther, "/p", "">>

\* urlSanitize(url): the url without its fragment
urlSanitize(url) == <<url[1], url[2], "">>

\* `MARKER::${u1}_${u2}` of the i-th call, the platform's requestId of the
\* network request of the i-th call; requestId 0 belongs to a background
\* request that no GM_xmlhttpRequest call has made
Marker(i) == <<"MARKER", i>>
ReqId(i) == <<"req", i>>
MarkerIndex(m) == m[2]

\* header names: "O" stands for Origin, "c" for cookie, "C" for Cookie,
\* "u" for user-agent, "p-" for proxy-, "s-" for sec-
HeaderOrigin == <<"O">>
HeaderOriginLower == <<"o">>
HeaderCookie == <<"c">>
HeaderCookieUpper == <<"C">>
HeaderAccept == <<"a">>

unsafeHeaders == { <<"u">>, <<"p", "-">>, <<"s", "-">>, <<"c">>, <<"o">> }

StartsWith(s, t) == Len(t) <= Len(s) /\ SubSeq(s, 1, Len(t)) = t

checkHasUnsafeHeaders(key) ==
  LET k == toLowerCase(key)
  IN  \/ k \in unsafeHeaders
      \/ \E specialHeaderKey \in { <<"p", "-">>, <<"s", "-">> } :
           StartsWith(k, specialHeaderKey)

Header(n, v) == [name |-> n, value |-> v]

\* the details (params[0]) the calls are made with
Details(u, h, a, c, r, f) ==
  [url |-> u, headers |-> h, anonymous |-> a, cookie |-> c, redirect |-> r,
   fetch |-> f]

\* cookie strings, as sequences of characters
CookieKV == <<"k", "=", "v">>
CookieHU == <<"h", "=", "u">>

XhrDetails ==
  { Details(UrlA, <<Header(HeaderCookieUpper, CookieHU)>>, FALSE, <<>>, "",
            FALSE),
    Details(UrlA, <<Header(HeaderAccept, <<"x">>)>>, FALSE, CookieKV,
            "follow", FALSE),
    Details(UrlB, <<>>, TRUE, <<>>, "manual", FALSE),
    Details(UrlRefused, <<>>, FALSE, <<>>, "", TRUE) }

\* useFetch = isFetch || !!redirect || anonymous || isBufferStream
useFetch(params) ==
  params.fetch \/ params.redirect # "" \/ params.anonymous

\* the request verify() has passed on for a call of script s1
XhrRequest(params) ==
  Req("s1", GM_xmlhttpRequest, URLHostname(params.url[1]), SenderNone)

(***************************************************************************)
(* buildDNRRule                                                            *)
(***************************************************************************)
\* headers[key] = value
HeadersSet(headers, key, value) ==
  IF \E k \in 1..Len(headers) : headers[k].name = key
  THEN [k \in 1..Len(headers) |->
          IF headers[k].name = key THEN Header(key, value) ELSE headers[k]]
  ELSE Append(headers, Header(key, value))

\* the loop over Object.entries(headers)
RECURSIVE HeaderOps(_, _)
HeaderOps(headers, k) ==
  IF k > Len(headers) THEN <<>>
  ELSE LET key == headers[k].name
           headerValue == headers[k].value
       IN  ( IF headerValue = <<>>
             THEN << [header |-> key, operation |-> "remove", value |-> <<>>] >>
             ELSE IF checkHasUnsafeHeaders(key)
             THEN << [header |-> key, operation |-> "set",
                      value |-> headerValue] >>
             ELSE <<>> ) \o HeaderOps(headers, k + 1)

\* a stored cookie, as chrome.cookies.getAll returns it
Cookie(n, v) == [name |-> n, value |-> v]

\* cookies.map((c) => `${c.name}=${c.value}`).join("; ")
RECURSIVE CookieJoin(_)
CookieJoin(cookies) ==
  IF cookies = <<>> THEN <<>>
  ELSE LET c == Head(cookies)
           s == c.name \o <<"=">> \o c.value
       IN  IF Len(cookies) = 1 THEN s
           ELSE s \o <<";", " ">> \o CookieJoin(Tail(cookies))

\* variant: the stored cookies are put right behind the cookie of the caller
AppendStored_NoSeparator(cookie, v) == cookie \o v

\* headers["cookie"] = u ? `${u}${!u.endsWith(";") ? "; " : " "}${v}` : v
\* with u = `${headers["cookie"] || ""}`.trim()
AppendStored(cookie, v) ==
  LET idx == { k \in 1..Len(cookie) : cookie[k] # " " }
      u == IF idx = {} THEN <<>>
           ELSE SubSeq(cookie,
                       CHOOSE k \in idx : \A j \in idx : k <= j,
                       CHOOSE k \in idx : \A j \in idx : k >= j)
  IN  IF u = <<>> THEN v
      ELSE IF u[Len(u)] # ";" THEN u \o <<";", " ">> \o v
      ELSE u \o <<" ">> \o v

\* modifyReqHeaders of buildDNRRule, cookies being what
\* chrome.cookies.getAll gives for params.url
buildModifyReqHeaders(params, cookies) ==
  LET h0 == params.headers
      h1 == IF \E k \in 1..Len(h0) :
                 h0[k].name \in {HeaderOrigin, HeaderOriginLower}
            THEN h0
            ELSE HeadersSet(h0, HeaderOrigin, <<>>)
      first == IF params.anonymous
               THEN IF params.cookie # <<>>
                    THEN << [header |-> HeaderCookie, operation |-> "set",
                             value |-> params.cookie] >>
                    ELSE << [header |-> HeaderCookie, operation |-> "remove",
                             value |-> <<>>] >>
               ELSE <<>>
      h2 == IF ~params.anonymous /\ params.cookie # <<>>
            THEN HeadersSet(h1, HeaderCookie, params.cookie)
            ELSE h1
      held == IF \E k \in 1..Len(h2) : h2[k].name = HeaderCookie
              THEN h2[CHOOSE k \in 1..Len(h2) : h2[k].name = HeaderCookie].value
              ELSE <<>>
      h3 == IF ~params.anonymous /\ Len(cookies) > 0
            THEN HeadersSet(h2, HeaderCookie,
                            AppendStored(held, CookieJoin(cookies)))
            ELSE h2
  IN  first \o HeaderOps(h3, 1)

\* the cookies the store holds while the calls are made
getAllCookies(url) ==
  IF url = UrlA THEN << Cookie(<<"s">>, <<"1">>) >> ELSE <<>>

ModifyReqHeaders(params) ==
  buildModifyReqHeaders(params, getAllCookies(params.url))

RuleIdBase == 10000

Rule(id, urlFilter, requestHeaders) ==
  [id |-> id, urlFilter |-> urlFilter, requestHeaders |-> requestHeaders]

\* chrome.declarativeNetRequest.updateSessionRules
updateSessionRules(rules, removeRuleIds, addRules) ==
  { r \in rules : r.id \notin removeRuleIds } \cup addRules

(***************************************************************************)
(* GM_xmlhttpRequest                                                       *)
(***************************************************************************)
NewXhr(params, extraCode) ==
  [params |-> params, extraCode |-> extraCode, pc |-> "called",
   ruleSt |-> "none", ruleId |-> 0, net |-> "none", cur |-> params.url,
   target |-> params.url, redirects |-> 0, disc |-> FALSE, onerror |-> 0,
   error |-> ""]

XhrIds == 1..Len(xhr)

\* variant: every rule gets the first id
NextRuleId_First(incr) == RuleIdBase + 1

\* 10000 + (await cacheInstance.incr("gmXhrRequestId", 1))
NextRuleId(incr) == RuleIdBase + incr

\* GM_xmlhttpRequest up to the updateSessionRules call of buildDNRRule
GM_xmlhttpRequestCall(params) ==
  LET i == Len(xhr) + 1
      markerID == Marker(i)
      c == NewXhr(params, XhrConfirm(XhrRequest(params)).extraCode)
      modifyReqHeaders == ModifyReqHeaders(params)
      ruleId == NextRuleId(gmXhrRequestId + 1)
      rule == Rule(ruleId, params.url, modifyReqHeaders)
  IN  /\ Len(xhr) < MaxXhr
      /\ IF c.extraCode = 48
         THEN \* throw throwErrorFn(msg)
              /\ xhr' = Append(xhr, [c EXCEPT !.pc = "thrown",
                                              !.onerror = 1,
                                              !.error = "Refused to connect"])
              /\ UNCHANGED <<headerModifierMap, gmXhrRequestId>>
         ELSE IF Len(modifyReqHeaders) > 0
         THEN /\ gmXhrRequestId' = gmXhrRequestId + 1
              /\ headerModifierMap' =
                   MapSet(headerModifierMap, markerID,
                          [rule |-> rule,
                           redirectNotManual |-> params.redirect # "manual"])
              /\ xhr' = Append(xhr, [c EXCEPT !.pc = "buildDNRRule",
                                              !.ruleSt = "pending",
                                              !.ruleId = ruleId])
         ELSE /\ xhr' = Append(xhr, [c EXCEPT !.pc = "buildDNRRule"])
              /\ UNCHANGED <<headerModifierMap, gmXhrRequestId>>
      /\ UNCHANGED <<xhrReqEntries, scXhrRequests, redirectedUrls,
                     headersReceivedMap, sessionRules, tasks, now>>
      /\ UNCHANGED nonNetVars

\* the platform carries out the updateSessionRules call of buildDNRRule, or
\* rejects it: the rejection leaves buildDNRRule and the try block of
\* GM_xmlhttpRequest, whose catch sends onerror and throws
UpdateSessionRules(i, ok) ==
  /\ xhr[i].ruleSt = "pending"
  /\ IF ok
     THEN /\ sessionRules' =
               updateSessionRules(sessionRules, {xhr[i].ruleId},
                                  { Rule(xhr[i].ruleId, xhr[i].params.url,
                                         ModifyReqHeaders(xhr[i].params)) })
          /\ xhr' = [xhr EXCEPT ![i].ruleSt = "installed"]
     ELSE /\ xhr' = [xhr EXCEPT ![i].ruleSt = "failed",
                                ![i].pc = "thrown",
                                ![i].onerror = 1,
                                ![i].error = "GM_xmlhttpRequest ERROR"]
          /\ UNCHANGED sessionRules
  /\ UNCHANGED <<xhrReqEntries, scXhrRequests, redirectedUrls,
                 headersReceivedMap, headerModifierMap, gmXhrRequestId, tasks,
                 now>>
  /\ UNCHANGED nonNetVars

\* variant: buildDNRRule does not wait for updateSessionRules
RuleAwaited_NoAwait(c) == TRUE

\* `await chrome.declarativeNetRequest.updateSessionRules(...)` and
\* `await this.buildDNRRule(...)` have returned
RuleAwaited(c) == c.ruleSt # "pending"

\* stackAsyncTask(key, task): the task is put behind the tasks of its key
TaskPush(ts, key, i) ==
  MapSet(ts, key, Append(IF MapHas(ts, key) THEN ts[key] ELSE <<>>, i))

\* the task at the head of its key has ended
TaskShift(ts, key) ==
  IF Len(ts[key]) = 1 THEN MapDelete(ts, key)
  ELSE MapSet(ts, key, Tail(ts[key]))

\* variant: a task starts whatever runs before it
TaskCanStart_NoSerial(ts, key, i) ==
  MapHas(ts, key) /\ \E k \in 1..Len(ts[key]) : ts[key][k] = i

\* a task starts when the tasks stacked before it on its key have ended
TaskCanStart(ts, key, i) == MapHas(ts, key) /\ Head(ts[key]) = i

\* GM_xmlhttpRequest from the return of buildDNRRule to stackAsyncTask
StackTask(i) ==
  /\ xhr[i].pc = "buildDNRRule"
  /\ RuleAwaited(xhr[i])
  /\ tasks' = TaskPush(tasks, urlSanitize(xhr[i].params.url), i)
  /\ xhr' = [xhr EXCEPT ![i].pc = "stacked"]
  /\ UNCHANGED <<xhrReqEntries, scXhrRequests, redirectedUrls,
                 headersReceivedMap, headerModifierMap, sessionRules,
                 gmXhrRequestId, now>>
  /\ UNCHANGED nonNetVars

\* variant: the task ends when f() has returned
TaskAwaitsRet_No(stdUrl) == FALSE

\* `return ret`: the task ends when the entry has been given to setReqDone
TaskAwaitsRet(stdUrl) == TRUE

\* the call whose task promise a setReqDone of entry resolves
ResolveTask(x, ts, m) ==
  LET j == MarkerIndex(m)
      key == urlSanitize(x[j].params.url)
  IN  IF x[j].pc = "pending"
      THEN [x |-> [x EXCEPT ![j].pc = "returned"], ts |-> TaskShift(ts, key)]
      ELSE [x |-> x, ts |-> ts]

\* the task of stackAsyncTask: the entry is registered and f() run
TaskStart(i, connectOk) ==
  LET c == xhr[i]
      requestUrl == c.params.url
      stdUrl == urlSanitize(requestUrl)
      xhrReqEntry == [reqUrl |-> requestUrl, markerId |-> Marker(i),
                      startTime |-> now - 1]
  IN  /\ c.pc = "stacked"
      /\ TaskCanStart(tasks, stdUrl, i)
      /\ useFetch(c.params) => connectOk
      /\ IF connectOk
         THEN /\ xhrReqEntries' = MapSet(xhrReqEntries, stdUrl, xhrReqEntry)
              /\ IF TaskAwaitsRet(stdUrl)
                 THEN /\ xhr' = [xhr EXCEPT ![i].pc = "pending",
                                            ![i].net = "beforeRequest"]
                      /\ UNCHANGED tasks
                 ELSE /\ xhr' = [xhr EXCEPT ![i].pc = "returned",
                                            ![i].net = "beforeRequest"]
                      /\ tasks' = TaskShift(tasks, stdUrl)
         ELSE \* connect(...) rejects: catch { setReqDone(stdUrl, entry) }
              /\ xhrReqEntries' =
                   MapDelete(MapSet(xhrReqEntries, stdUrl, xhrReqEntry),
                             stdUrl)
              /\ xhr' = [xhr EXCEPT ![i].pc = "returned"]
              /\ tasks' = TaskShift(tasks, stdUrl)
      /\ UNCHANGED <<scXhrRequests, redirectedUrls, headersReceivedMap,
                     headerModifierMap, sessionRules, gmXhrRequestId, now>>
      /\ UNCHANGED nonNetVars

(***************************************************************************)
(* setReqId and the webRequest listeners                                   *)
(***************************************************************************)
BindWindow == 400

\* variant: the time between start and event is not bounded
BindOk_NoWindow(xhrReqEntry, url, timeStamp) ==
  /\ xhrReqEntry.reqUrl = url
  /\ ~(xhrReqEntry.startTime = 0 \/ ~(timeStamp > xhrReqEntry.startTime))

\* the last branch of setReqId is taken
BindOk(xhrReqEntry, url, timeStamp) ==
  /\ xhrReqEntry.reqUrl = url
  /\ ~(xhrReqEntry.startTime = 0 \/ ~(timeStamp > xhrReqEntry.startTime))
  /\ ~(timeStamp - xhrReqEntry.startTime > BindWindow)

\* setReqId(reqId, url, timeStamp) applied to the calls x
setReqId(x, reqId, url, timeStamp) ==
  LET stdUrl == urlSanitize(url)
  IN  IF MapHas(xhrReqEntries, stdUrl)
      THEN LET xhrReqEntry == xhrReqEntries[stdUrl]
               markerId == xhrReqEntry.markerId
               done == ResolveTask(x, tasks, markerId)
           IN  /\ scXhrRequests' =
                    IF BindOk(xhrReqEntry, url, timeStamp)
                    THEN MapSet(MapSet(scXhrRequests, markerId, reqId),
                                reqId, markerId)
                    ELSE scXhrRequests
               /\ xhrReqEntries' = MapDelete(xhrReqEntries, stdUrl)
               /\ xhr' = done.x
               /\ tasks' = done.ts
      ELSE /\ xhr' = x
           /\ UNCHANGED <<scXhrRequests, xhrReqEntries, tasks>>

\* onBeforeRequest for the network request of call i
OnBeforeRequest(i) ==
  /\ xhr[i].net = "beforeRequest"
  /\ setReqId([xhr EXCEPT ![i].net = "sendHeaders"], ReqId(i), xhr[i].cur, now)
  /\ UNCHANGED <<redirectedUrls, headersReceivedMap, headerModifierMap,
                 sessionRules, gmXhrRequestId, now>>
  /\ UNCHANGED nonNetVars

\* onBeforeRequest for a background request of the extension that is not
\* the network request of a call; requestId 0 stands for a request whose id
\* the maps do not hold yet
OnBeforeRequestOther(url, timeStamp) ==
  /\ DOMAIN xhrReqEntries # {}
  /\ ~MapHas(scXhrRequests, ReqId(0))
  /\ setReqId(xhr, ReqId(0), url, timeStamp)
  /\ UNCHANGED <<redirectedUrls, headersReceivedMap, headerModifierMap,
                 sessionRules, gmXhrRequestId, now>>
  /\ UNCHANGED nonNetVars

\* onBeforeSendHeaders for the network request of call i
OnBeforeSendHeaders(i) ==
  LET reqId == ReqId(i)
  IN  /\ xhr[i].net = "sendHeaders"
      /\ redirectedUrls' =
           IF MapHas(scXhrRequests, reqId)
           THEN MapSet(redirectedUrls, scXhrRequests[reqId], xhr[i].cur)
           ELSE redirectedUrls
      /\ xhr' = [xhr EXCEPT ![i].net = "headers"]
      /\ UNCHANGED <<xhrReqEntries, scXhrRequests, headersReceivedMap,
                     headerModifierMap, sessionRules, gmXhrRequestId, tasks,
                     now>>
      /\ UNCHANGED nonNetVars

\* responses: the status and the value of the Location header ("none" when
\* there is no such header)
Response(s, k, v) == [statusCode |-> s, location |-> k, value |-> v]

Responses ==
  { Response(200, "none", UrlA),
    Response(302, "absolute", UrlB),
    Response(302, "relative", <<NoHost, "/q", "">>),
    Response(302, "empty", UrlA) }

\* new URL(header.value, details.url).href; <<>> when there is no Location
\* header with a value
ResolveLocation(response, url) ==
  IF response.location = "absolute" THEN response.value
  ELSE IF response.location = "relative"
  THEN <<url[1], response.value[2], response.value[3]>>
  ELSE <<>>

\* variant: the header operations are copied as they are
FilterCookie_Keep(requestHeaders) == requestHeaders

\* requestHeaders.filter((header) => header.header.toLowerCase() !== "cookie")
RECURSIVE FilterCookie(_)
FilterCookie(requestHeaders) ==
  IF requestHeaders = <<>> THEN <<>>
  ELSE ( IF toLowerCase(Head(requestHeaders).header) # HeaderCookie
         THEN <<Head(requestHeaders)>>
         ELSE <<>> ) \o FilterCookie(Tail(requestHeaders))

\* details.responseHeaders of a response: its Location header, if any
ResponseHeaders(response) ==
  IF response.location = "none" THEN <<>>
  ELSE <<[name |-> "location",
          value |-> IF response.location = "empty" THEN <<>>
                    ELSE response.value]>>

\* the record onHeadersReceived stores; a field that the getters of
\* resultParam set to null is a sequence of at most one value
HeadersReceived(response) ==
  [statusCode |-> <<response.statusCode>>,
   responseHeaders |-> <<ResponseHeaders(response)>>]

\* onHeadersReceived for the network request of call i
OnHeadersReceived(i, response) ==
  LET reqId == ReqId(i)
      bound == MapHas(scXhrRequests, reqId)
      markerID == scXhrRequests[reqId]
      location == ResolveLocation(response, xhr[i].cur)
      followed == /\ location # <<>>
                  /\ xhr[i].params.redirect # "manual"
                  /\ xhr[i].redirects < MaxRedirects
  IN  /\ xhr[i].net = "headers"
      /\ xhr' = [xhr EXCEPT ![i].net = IF followed THEN "redirect" ELSE "done",
                            ![i].target = IF followed THEN location ELSE @]
      /\ IF ~bound
         THEN UNCHANGED <<headersReceivedMap, headerModifierMap, sessionRules>>
         ELSE /\ headersReceivedMap' =
                   MapSet(headersReceivedMap, markerID,
                          HeadersReceived(response))
              /\ IF ~MapHas(headerModifierMap, markerID)
                 THEN UNCHANGED <<headerModifierMap, sessionRules>>
                 ELSE LET dnrRule == headerModifierMap[markerID]
                          rule == dnrRule.rule
                          newRule == Rule(rule.id, location,
                                          FilterCookie(rule.requestHeaders))
                      IN  IF location # <<>> /\ dnrRule.redirectNotManual
                          THEN /\ headerModifierMap' =
                                    MapSet(headerModifierMap, markerID,
                                           [dnrRule EXCEPT !.rule = newRule])
                               /\ sessionRules' =
                                    updateSessionRules(sessionRules, {rule.id},
                                                       {newRule})
                          ELSE /\ headerModifierMap' =
                                    MapDelete(headerModifierMap, markerID)
                               /\ sessionRules' =
                                    updateSessionRules(sessionRules, {rule.id},
                                                       {})
      /\ UNCHANGED <<xhrReqEntries, scXhrRequests, redirectedUrls,
                     gmXhrRequestId, tasks, now>>
      /\ UNCHANGED nonNetVars

\* onBeforeRedirect for the network request of call i
OnBeforeRedirect(i) ==
  LET reqId == ReqId(i)
  IN  /\ xhr[i].net = "redirect"
      /\ redirectedUrls' =
           IF MapHas(scXhrRequests, reqId)
           THEN MapSet(redirectedUrls, scXhrRequests[reqId], xhr[i].target)
           ELSE redirectedUrls
      /\ xhr' = [xhr EXCEPT ![i].net = "beforeRequest",
                            ![i].cur = xhr[i].target,
                            ![i].redirects = @ + 1]
      /\ UNCHANGED <<xhrReqEntries, scXhrRequests, headersReceivedMap,
                     headerModifierMap, sessionRules, gmXhrRequestId, tasks,
                     now>>
      /\ UNCHANGED nonNetVars

\* the network request of call i is under way
InFlight(c) ==
  c.net \in {"beforeRequest", "sendHeaders", "headers", "redirect", "done"}

\* loadendCleanUp of call i
LoadendCleanUp(i) ==
  LET markerID == Marker(i)
      sc1 == IF MapHas(scXhrRequests, markerID)
             THEN MapDelete(scXhrRequests, scXhrRequests[markerID])
             ELSE scXhrRequests
  IN  /\ redirectedUrls' = MapDelete(redirectedUrls, markerID)
      /\ scXhrRequests' = MapDelete(sc1, markerID)
      /\ headersReceivedMap' = MapDelete(headersReceivedMap, markerID)
      /\ headerModifierMap' = MapDelete(headerModifierMap, markerID)

\* the loadend event of the request of call i reaches the service worker:
\* the callback of bgXhrInterface, or the "onloadend" message of the
\* offscreen connection, which is closed when the channel has disconnected
LoadEnd(i) ==
  /\ InFlight(xhr[i])
  /\ useFetch(xhr[i].params) \/ ~xhr[i].disc
  /\ LoadendCleanUp(i)
  /\ xhr' = [xhr EXCEPT ![i].net = "ended"]
  /\ UNCHANGED <<xhrReqEntries, sessionRules, gmXhrRequestId, tasks, now>>
  /\ UNCHANGED nonNetVars

\* msgConn.onDisconnect while the request is under way
Disconnect(i) ==
  /\ InFlight(xhr[i])
  /\ ~xhr[i].disc
  /\ xhr' = [xhr EXCEPT ![i].disc = TRUE]
  /\ UNCHANGED <<xhrReqEntries, scXhrRequests, redirectedUrls,
                 headersReceivedMap, headerModifierMap, sessionRules,
                 gmXhrRequestId, tasks, now>>
  /\ UNCHANGED nonNetVars

\* the readings of Date.now() and of the platform's timeStamp: the start,
\* and the last instant inside and the first outside the window of an entry
\* registered at the start
ClockValues == {1000, 999 + BindWindow, 1000 + BindWindow}

\* time passes; the clock is read by setReqId only, which compares it with
\* the start time of an entry that waits
Tick(t) ==
  /\ DOMAIN xhrReqEntries # {}
  /\ t > now
  /\ now' = t
  /\ UNCHANGED <<xhr, xhrReqEntries, scXhrRequests, redirectedUrls,
                 headersReceivedMap, headerModifierMap, sessionRules,
                 gmXhrRequestId, tasks>>
  /\ UNCHANGED nonNetVars

NetUrls == {UrlA, UrlAHash, UrlB}

NetInit ==
  /\ PermInit
  /\ ConnectIdle
  /\ RestIdle
  /\ NetEmpty
  /\ now = 1000

NetNext ==
  \/ \E params \in XhrDetails : GM_xmlhttpRequestCall(params)
  \/ \E i \in XhrIds : \E ok \in BOOLEAN : UpdateSessionRules(i, ok)
  \/ \E i \in XhrIds : StackTask(i)
  \/ \E i \in XhrIds : \E connectOk \in BOOLEAN : TaskStart(i, connectOk)
  \/ \E i \in XhrIds : OnBeforeRequest(i)
  \/ \E url \in NetUrls : \E timeStamp \in {now - 1, now} :
       OnBeforeRequestOther(url, timeStamp)
  \/ \E i \in XhrIds : OnBeforeSendHeaders(i)
  \/ \E i \in XhrIds : \E response \in Responses : OnHeadersReceived(i, response)
  \/ \E i \in XhrIds : OnBeforeRedirect(i)
  \/ \E i \in XhrIds : LoadEnd(i)
  \/ \E i \in XhrIds : Disconnect(i)
  \/ \E t \in ClockValues : Tick(t)

NetSpec == NetInit /\ [][NetNext]_vars

(***************************************************************************)
(* Properties of part 3                                                    *)
(***************************************************************************)
\* the host of call c matches no @connect entry of its script
Unlisted(c) ==
  getConnectMatched(Scripts["s1"].connect, URLHostname(c.params.url[1]),
                    SenderNone) = 0

\* a correlation entry of call i is registered
Registered(i) ==
  \E u \in DOMAIN xhrReqEntries : xhrReqEntries[u].markerId = Marker(i)

\* call i has a task stacked or running
Stacked(i) ==
  \E key \in DOMAIN tasks : \E k \in 1..Len(tasks[key]) : tasks[key][k] = i

SetReqIdOutcome(reqId, url, timeStamp) ==
  LET stdUrl == urlSanitize(url)
  IN  MapHas(xhrReqEntries, stdUrl) =>
        LET e == xhrReqEntries[stdUrl]
        IN  /\ ~MapHas(xhrReqEntries', stdUrl)
            /\ IF /\ url = e.reqUrl
                  /\ timeStamp > e.startTime
                  /\ timeStamp - e.startTime <= 400
               THEN /\ MapHas(scXhrRequests', reqId)
                    /\ scXhrRequests'[reqId] = e.markerId
                    /\ MapHas(scXhrRequests', e.markerId)
                    /\ scXhrRequests'[e.markerId] = reqId
               ELSE scXhrRequests' = scXhrRequests

\* C13: a request-observed event is bound to the pending entry of its
\* normalized url only if its url equals the stored url and its timestamp
\* is after the start time by at most 400 ms; in every other case with an
\* entry present the entry is discarded and no binding is made.
C13_BindInWindow ==
  [][ /\ \A i \in XhrIds :
           OnBeforeRequest(i) => SetReqIdOutcome(ReqId(i), xhr[i].cur, now)
      /\ \A url \in NetUrls : \A timeStamp \in {now - 1, now} :
           OnBeforeRequestOther(url, timeStamp) =>
             SetReqIdOutcome(ReqId(0), url, timeStamp) ]_vars

\* the entry of one call has been discarded without a binding while its
\* request goes on, the other call has been bound at the end of the window
C13_Witness ==
  /\ Len(xhr) = 2
  /\ xhr[1].pc = "returned"
  /\ xhr[1].net = "sendHeaders"
  /\ ~MapHas(scXhrRequests, Marker(1))
  /\ MapHas(scXhrRequests, Marker(2))
  /\ scXhrRequests[Marker(2)] = ReqId(2)
  /\ now = 999 + 400

\* C14: scXhrRequests is a one-to-one relation between marker ids and
\* platform request ids: every key is the value of its value, so that no
\* request id is bound to two marker ids and no marker id to two request
\* ids.
C14_OneToOne ==
  \A k \in DOMAIN scXhrRequests :
    /\ MapHas(scXhrRequests, scXhrRequests[k])
    /\ scXhrRequests[scXhrRequests[k]] = k

\* the calls with a registered, unresolved entry for the key stdUrl
Unresolved(stdUrl) ==
  { i \in XhrIds :
      /\ urlSanitize(xhr[i].params.url) = stdUrl
      /\ xhr[i].pc = "pending" }

\* the network request of call i has been dispatched
Dispatched(i) == xhr[i].net # "none"

\* in this state the entries and the calls agree
OneEntryPerUrl ==
  /\ \A u \in DOMAIN xhrReqEntries :
       Unresolved(u) = {MarkerIndex(xhrReqEntries[u].markerId)}
  /\ \A i \in XhrIds :
       LET u == urlSanitize(xhr[i].params.url)
       IN  /\ xhr[i].pc = "pending" =>
                /\ MapHas(xhrReqEntries, u)
                /\ xhrReqEntries[u].markerId = Marker(i)
                /\ xhrReqEntries[u].reqUrl = xhr[i].params.url
           /\ xhr[i].pc = "stacked" => ~Dispatched(i) /\ ~Registered(i)

\* C15: at most one call per normalized url has a registered, unresolved
\* entry; a later call to that url stays stacked, neither registered nor
\* dispatched, until the entry has been bound or discarded, and no step
\* replaces a pending entry by another one.
C15_OneEntryPerUrl ==
  [][ /\ OneEntryPerUrl'
      /\ \A u \in DOMAIN xhrReqEntries :
           MapHas(xhrReqEntries', u) => xhrReqEntries'[u] = xhrReqEntries[u]
    ]_vars

\* the second call to a url is stacked behind the first one, whose entry is
\* pending
C15_Witness ==
  /\ Len(xhr) = 2
  /\ urlSanitize(xhr[1].params.url) = urlSanitize(xhr[2].params.url)
  /\ xhr[1].pc = "pending"
  /\ Registered(1)
  /\ xhr[2].pc = "stacked"

\* the steps the service worker and the platform take without waiting for
\* anything: the platform carries out updateSessionRules, the call goes on
\* to stackAsyncTask, a task whose turn has come starts, and a request that
\* is under way comes to its loadend.  Nothing obliges the platform to
\* report a request to onBeforeRequest.
NetLiveSpec ==
  /\ NetInit
  /\ [][NetNext]_vars
  /\ WF_vars(\E i \in XhrIds : \E ok \in BOOLEAN :
               UpdateSessionRules(i, ok))
  /\ WF_vars(\E i \in XhrIds : StackTask(i))
  /\ WF_vars(\E i \in XhrIds : \E connectOk \in BOOLEAN :
               TaskStart(i, connectOk))
  /\ WF_vars(\E i \in XhrIds : LoadEnd(i))

\* C16: every registered correlation entry is removed in the end, also
\* when onBeforeRequest is never called for its request, so that a call
\* stacked behind it is dispatched and every call that has registered or
\* stacked returns.
C16_EntryRemoved ==
  /\ \A u \in {urlSanitize(UrlA), urlSanitize(UrlB)} :
       MapHas(xhrReqEntries, u) ~> ~MapHas(xhrReqEntries, u)
  /\ \A i \in 1..MaxXhr :
       (i \in XhrIds /\ xhr[i].pc \in {"stacked", "pending"})
         ~> (i \in XhrIds /\ xhr[i].pc = "returned")

\* nothing in the maps refers to call i
Purged(i) ==
  /\ ~MapHas(scXhrRequests, Marker(i))
  /\ \A k \in DOMAIN scXhrRequests : scXhrRequests[k] # Marker(i)
  /\ ~MapHas(redirectedUrls, Marker(i))
  /\ ~MapHas(headersReceivedMap, Marker(i))
  /\ ~MapHas(headerModifierMap, Marker(i))

\* C17: once a request has come to its loadend, or its channel has
\* disconnected and no loadend can follow, nothing of its marker id and of
\* the request id bound to it is left in scXhrRequests, redirectedUrls,
\* headersReceivedMap and headerModifierMap.
C17_PurgedAfterEnd ==
  \A i \in XhrIds :
    ( \/ xhr[i].net = "ended"
      \/ xhr[i].disc /\ ~useFetch(xhr[i].params) )
    => Purged(i)

\* C18: the session rule of a call is installed before the call stacks its
\* task, registers its entry and dispatches its request: a call that has
\* got that far has had its updateSessionRules carried out, and while its
\* entry waits for onBeforeRequest its rule is among the session rules.
C18_RuleBeforeDispatch ==
  \A i \in XhrIds :
    /\ ( \/ xhr[i].pc \in {"stacked", "pending", "returned"}
         \/ Stacked(i)
         \/ Registered(i)
         \/ Dispatched(i) )
       => xhr[i].ruleSt = "installed"
    /\ Registered(i) => \E r \in sessionRules : r.id = xhr[i].ruleId

\* the request of a call is dispatched, its rule is installed
C18_Witness ==
  \E i \in XhrIds :
    /\ xhr[i].net = "beforeRequest"
    /\ xhr[i].redirects = 0
    /\ Registered(i)
    /\ Rule(xhr[i].ruleId, xhr[i].params.url, ModifyReqHeaders(xhr[i].params))
         \in sessionRules

\* the header operations name no cookie header
NoCookieOp(requestHeaders) ==
  \A k \in 1..Len(requestHeaders) :
    requestHeaders[k].header \notin {HeaderCookie, HeaderCookieUpper}

\* what onHeadersReceived has to do for a bound request with a header rule
HeadersReceivedOutcome(i, response) ==
  LET reqId == ReqId(i)
      markerID == scXhrRequests[reqId]
      old == headerModifierMap[markerID].rule
      manual == xhr[MarkerIndex(markerID)].params.redirect = "manual"
      redirect == response.location \in {"absolute", "relative"}
      redirectTarget == IF response.location = "absolute" THEN response.value
                        ELSE <<xhr[i].cur[1], "/q", "">>
  IN  IF redirect /\ ~manual
      THEN /\ MapHas(headerModifierMap', markerID)
           /\ headerModifierMap'[markerID].rule.id = old.id
           /\ headerModifierMap'[markerID].rule.urlFilter = redirectTarget
           /\ NoCookieOp(headerModifierMap'[markerID].rule.requestHeaders)
           /\ \A r \in sessionRules' :
                r.id = old.id <=> r = headerModifierMap'[markerID].rule
           /\ headerModifierMap'[markerID].rule \in sessionRules'
      ELSE /\ ~MapHas(headerModifierMap', markerID)
           /\ \A r \in sessionRules' : r.id # old.id

\* C19: on headers-received for a bound request with a header rule, a
\* response with a Location header under a redirect policy other than
\* manual replaces the rule by one with the same id, the resolved redirect
\* target as urlFilter and no cookie operation; otherwise the rule is
\* removed from the session rules and from headerModifierMap.
C19_RedirectRule ==
  [][ \A i \in XhrIds : \A response \in Responses :
        ( /\ OnHeadersReceived(i, response)
          /\ MapHas(scXhrRequests, ReqId(i))
          /\ MapHas(headerModifierMap, scXhrRequests[ReqId(i)]) )
        => HeadersReceivedOutcome(i, response) ]_vars

\* the rule of a call follows its redirect and has lost its cookie
\* operation
C19_Witness ==
  \E i \in XhrIds :
    /\ MapHas(headerModifierMap, Marker(i))
    /\ xhr[i].params.url = UrlA
    /\ headerModifierMap[Marker(i)].rule.urlFilter = UrlB
    /\ headerModifierMap[Marker(i)].rule \in sessionRules
    /\ ~NoCookieOp(ModifyReqHeaders(xhr[i].params))
    /\ NoCookieOp(headerModifierMap[Marker(i)].rule.requestHeaders)

\* C20: after the loadend of a request no session rule installed for it
\* remains.
C20_RuleDeletedAtEnd ==
  \A i \in XhrIds :
    xhr[i].net = "ended" => \A r \in sessionRules : r.id # xhr[i].ruleId

\* the correlation entry of call i was discarded unbound while its request
\* is under way
Discarded(i) ==
  /\ xhr[i].pc = "returned"
  /\ xhr[i].net = "beforeRequest"
  /\ ~MapHas(scXhrRequests, Marker(i))

\* C21: a call whose rule installation failed, or whose correlation entry
\* was discarded as a mismatch, is not aborted: it has not thrown and no
\* onerror message was sent for it.
C21_DegradedNotAborted ==
  \A i \in XhrIds :
    (xhr[i].ruleSt = "failed" \/ Discarded(i))
    => (xhr[i].pc # "thrown" /\ xhr[i].onerror = 0)

(***************************************************************************)
(* Rule ids across restarts of the service worker                          *)
(***************************************************************************)
\* the service worker is stopped and started again: the module-level maps
\* and the task queue are new and the calls under way are gone; the session
\* rules stay with the platform and the counter stays in the cache
Restart ==
  /\ \E i \in XhrIds : xhr[i].pc \notin {"gone", "thrown"}
  /\ xhr' = [i \in XhrIds |->
               IF xhr[i].pc = "thrown" THEN xhr[i]
               ELSE [xhr[i] EXCEPT !.pc = "gone", !.net = "gone",
                                   !.disc = TRUE]]
  /\ xhrReqEntries' = <<>>
  /\ scXhrRequests' = <<>>
  /\ redirectedUrls' = <<>>
  /\ headersReceivedMap' = <<>>
  /\ headerModifierMap' = <<>>
  /\ tasks' = <<>>
  /\ UNCHANGED <<sessionRules, gmXhrRequestId, now>>
  /\ UNCHANGED nonNetVars

RuleIdNext ==
  \/ \E params \in XhrDetails : GM_xmlhttpRequestCall(params)
  \/ \E i \in XhrIds : \E ok \in BOOLEAN : UpdateSessionRules(i, ok)
  \/ \E i \in XhrIds : StackTask(i)
  \/ \E i \in XhrIds : TaskStart(i, TRUE)
  \/ \E i \in XhrIds : OnBeforeRequest(i)
  \/ \E i \in XhrIds : OnBeforeSendHeaders(i)
  \/ \E i \in XhrIds : \E response \in Responses : OnHeadersReceived(i, response)
  \/ \E i \in XhrIds : LoadEnd(i)
  \/ Restart

RuleIdSpec == NetInit /\ [][RuleIdNext]_vars

\* the calls that were given a rule id
WithRule == { i \in XhrIds : xhr[i].ruleId # 0 }

\* C22: rule ids are issued in strictly increasing order, also after a
\* restart; a rule that is installed has an id no installed rule has, and
\* installing it leaves every rule of another call in place.
C22_RuleIdsIncrease ==
  [][ /\ \A params \in XhrDetails :
           (GM_xmlhttpRequestCall(params) /\ Len(xhr') \in WithRule')
           => /\ \A j \in WithRule : xhr[j].ruleId < xhr'[Len(xhr')].ruleId
              /\ \A r \in sessionRules : r.id < xhr'[Len(xhr')].ruleId
      /\ \A i \in XhrIds :
           UpdateSessionRules(i, TRUE)
           => /\ \A r \in sessionRules : r.id # xhr[i].ruleId
              /\ sessionRules \subseteq sessionRules'
              /\ \A r \in sessionRules' \ sessionRules : r.id = xhr[i].ruleId
    ]_vars

\* a rule is installed after a restart while the rule of a call from before
\* the restart is still among the session rules
C22_Witness ==
  \E i, j \in XhrIds :
    /\ i < j
    /\ xhr[i].pc = "gone"
    /\ xhr[j].ruleSt = "installed"
    /\ xhr[j].pc # "gone"
    /\ \E r \in sessionRules : r.id = xhr[i].ruleId
    /\ \E r \in sessionRules : r.id = xhr[j].ruleId

(***************************************************************************)
(* Part 4: the header operations of buildDNRRule                           *)
(***************************************************************************)
MaxStored == 2

\* the cookie option of the call: none, plain, ending in ";", in blanks
DnrCookies ==
  { <<>>, CookieKV, CookieKV \o <<";">>, <<" ">> \o CookieKV \o <<" ">> }

DnrHeaders ==
  { <<>>,
    << Header(HeaderCookieUpper, CookieHU) >>,
    << Header(HeaderCookie, CookieHU) >>,
    << Header(HeaderAccept, <<"x">>) >> }

DnrDetails ==
  { Details(UrlA, h, a, c, "", FALSE) :
      h \in DnrHeaders, a \in BOOLEAN, c \in DnrCookies }

StoredCookies == { Cookie(<<"s">>, <<"1">>), Cookie(<<"t">>, <<"2">>) }

StoredLists == UNION { [1..n -> StoredCookies] : n \in 0..MaxStored }

DnrInit ==
  /\ PermInit
  /\ ConnectIdle
  /\ NetIdle
  /\ tx = <<>>
  /\ fx = <<>>
  /\ conn = <<>>
  /\ rp = <<>>
  /\ MoreIdle
  /\ dnr \in [params : DnrDetails, cookies : StoredLists, done : {FALSE},
              ops : {<<>>}]

\* buildDNRRule computes modifyReqHeaders
BuildDNRRule ==
  /\ ~dnr.done
  /\ dnr' = [dnr EXCEPT !.done = TRUE,
                        !.ops = buildModifyReqHeaders(dnr.params, dnr.cookies)]
  /\ UNCHANGED <<permVars, connectVars, netVars, tx, fx, conn, rp, moreVars>>

DnrNext == BuildDNRRule

DnrSpec == DnrInit /\ [][DnrNext]_vars

\* a string without the blanks around it
StripBlanks(s) ==
  LET idx == { k \in 1..Len(s) : s[k] # " " }
  IN  IF idx = {} THEN <<>>
      ELSE SubSeq(s, CHOOSE k \in idx : \A j \in idx : k <= j,
                     CHOOSE k \in idx : \A j \in idx : k >= j)

\* the name=value pairs a cookie header value is read as
RECURSIVE CookiePairs(_, _)
CookiePairs(s, cur) ==
  LET pair == IF StripBlanks(cur) = <<>> THEN <<>> ELSE << StripBlanks(cur) >>
  IN  IF s = <<>> THEN pair
      ELSE IF Head(s) = ";" THEN pair \o CookiePairs(Tail(s), <<>>)
      ELSE CookiePairs(Tail(s), Append(cur, Head(s)))

\* the cookie the caller has given: the cookie option, or else a cookie header
CallerCookie(params) ==
  IF params.cookie # <<>> THEN params.cookie
  ELSE IF \E k \in 1..Len(params.headers) :
            params.headers[k].name = HeaderCookie
  THEN params.headers[CHOOSE k \in 1..Len(params.headers) :
                        params.headers[k].name = HeaderCookie].value
  ELSE <<>>

\* C23: in anonymous mode the first operation removes the cookie header, or
\* sets it to exactly the cookie option when one is given, and the
\* operations do not depend on the stored cookies; otherwise, when there is
\* a cookie of the caller or a stored cookie, a set operation on the cookie
\* header carries the caller's pairs followed by the stored pairs, and with
\* a plain cookie option the value is that option, "; " and the stored pairs
\* joined with "; ".
C23_CookieAssembly ==
  dnr.done =>
    LET p == dnr.params
        ops == dnr.ops
        stored == [k \in 1..Len(dnr.cookies) |->
                     dnr.cookies[k].name \o <<"=">> \o dnr.cookies[k].value]
    IN  IF p.anonymous
        THEN /\ ops[1] = IF p.cookie # <<>>
                         THEN [header |-> HeaderCookie, operation |-> "set",
                               value |-> p.cookie]
                         ELSE [header |-> HeaderCookie, operation |-> "remove",
                               value |-> <<>>]
             /\ ops = buildModifyReqHeaders(p, <<>>)
        ELSE (CallerCookie(p) # <<>> \/ stored # <<>>) =>
               \E k \in 1..Len(ops) :
                 /\ ops[k].header = HeaderCookie
                 /\ ops[k].operation = "set"
                 /\ CookiePairs(ops[k].value, <<>>)
                      = CookiePairs(CallerCookie(p), <<>>) \o stored
                 /\ (p.cookie = CookieKV /\ stored # <<>>) =>
                      ops[k].value
                        = CookieKV \o <<";", " ">> \o CookieJoin(dnr.cookies)

\* a cookie option ending in ";" was put before two stored cookies
C23_Witness ==
  /\ dnr.done
  /\ ~dnr.params.anonymous
  /\ dnr.params.cookie = CookieKV \o <<";">>
  /\ Len(dnr.cookies) = 2
  /\ \E k \in 1..Len(dnr.ops) : Len(dnr.ops[k].value) = 13

(***************************************************************************)
(* Part 5: onDataReceived, the chunk messages of a payload                 *)
(***************************************************************************)
MaxChunks == 3

MiB == 1024 * 1024

\* chunkSize of chunkUint8, and c of the text branch of onDataReceived
ChunkSize == 2 * 1024 * 1024

\* a string, Uint8Array, ArrayBuffer or Blob of len characters or bytes; its
\* content is told by id and position
Payload(kind, id, len) == [kind |-> kind, id |-> id, len |-> len]

\* the part of a payload from position from up to, not including, to
Slice(p, from, to) == [id |-> p.id, from |-> from, to |-> to]

\* variant: the bytes are not split
chunkUint8_Whole(u8, chunkSize, i) ==
  IF u8.len > 0 THEN << Slice(u8, 0, u8.len) >> ELSE <<>>

\* chunkUint8(src, chunkSize), i being the loop variable
RECURSIVE chunkUint8(_, _, _)
chunkUint8(u8, chunkSize, i) ==
  IF i < u8.len
  THEN << Slice(u8, i, IF i + chunkSize < u8.len THEN i + chunkSize
                         ELSE u8.len) >>
       \o chunkUint8(u8, chunkSize, i + chunkSize)
  ELSE <<>>

\* variant: the characters behind the last full chunk are left out
chunkString_DropRest(d, c, i) ==
  [k \in 1..(d.len \div c) |-> Slice(d, (k - 1) * c, k * c)]

\* for (let i = 0, l = d.length; i < l; i += c) of the text branch, a
\* substring going up to the end of the string at most
RECURSIVE chunkString(_, _, _)
chunkString(d, c, i) ==
  IF i < d.len
  THEN LET chunk == Slice(d, i, IF i + c < d.len THEN i + c ELSE d.len)
       IN  (IF chunk.to - chunk.from # 0 THEN << chunk >> ELSE <<>>)
           \o chunkString(d, c, i + c)
  ELSE <<>>

\* uint8ToBase64 and base64ToUint8: the text that stands for the bytes
uint8ToBase64(chunk) == [b64 |-> chunk]

base64ToUint8(s) == s.b64

ChunkMsg(action, type, chunk) ==
  [action |-> action, type |-> type, chunk |-> chunk]

\* the messages the task of onDataReceived sends for param
onDataReceived(param) ==
  LET reset == IF ~param.chunk
               THEN << ChunkMsg("reset_chunk", param.type, <<>>) >>
               ELSE <<>>
  IN  IF param.data.kind \in {"Blob", "Uint8Array", "ArrayBuffer"}
      THEN LET chunks == chunkUint8(param.data, ChunkSize, 0)
           IN  reset \o [k \in 1..Len(chunks) |->
                           ChunkMsg("append_chunk", param.type,
                                    uint8ToBase64(chunks[k]))]
      ELSE IF param.data.kind = "string"
      THEN LET chunks == chunkString(param.data, ChunkSize, 0)
           IN  reset \o [k \in 1..Len(chunks) |->
                           ChunkMsg("append_chunk", param.type, chunks[k])]
      ELSE <<>>

\* the payload lengths: up to MaxChunks chunks, the last full or not
PayloadLens ==
  { k * ChunkSize + r : k \in 0..(MaxChunks - 1),
                        r \in {0, 1, MiB, ChunkSize - 1} }

\* what xmlhttpRequestFn (chunk false) and FetchXHR (chunk true) hand over
DataParams ==
  { [chunk |-> FALSE, type |-> e[1], data |-> Payload(e[2], 1, n)] :
      e \in { <<"text", "string">>, <<"document", "string">>,
              <<"arraybuffer", "ArrayBuffer">>, <<"blob", "Blob">> },
      n \in PayloadLens }
  \cup
  { [chunk |-> TRUE, type |-> e[1], data |-> Payload(e[2], 1, n)] :
      e \in { <<"text", "string">>, <<"stream", "Uint8Array">>,
              <<"buffer", "Uint8Array">> },
      n \in PayloadLens \ {0} }

ChunkInit ==
  /\ PermInit
  /\ ConnectIdle
  /\ NetIdle
  /\ dnr = <<>>
  /\ fx = <<>>
  /\ conn = <<>>
  /\ rp = <<>>
  /\ MoreIdle
  /\ tx \in [param : DataParams, done : {FALSE}, msgs : {<<>>}]

\* the task stacked by onDataReceived runs
DataReceived ==
  /\ ~tx.done
  /\ tx' = [tx EXCEPT !.done = TRUE, !.msgs = onDataReceived(tx.param)]
  /\ UNCHANGED <<permVars, connectVars, netVars, dnr, fx, conn, rp, moreVars>>

ChunkNext == DataReceived

ChunkSpec == ChunkInit /\ [][ChunkNext]_vars

\* the part of the payload an append message carries, as the receiver reads
\* it
Carried(msg) ==
  IF "b64" \in DOMAIN msg.chunk THEN base64ToUint8(msg.chunk) ELSE msg.chunk

\* the append messages among the messages sent
Appends == SelectSeq(tx.msgs, LAMBDA m : m.action = "append_chunk")

C30_ChunkSizes ==
  tx.done =>
    LET a == Appends
        n == tx.param.data.len
        size(k) == Carried(a[k]).to - Carried(a[k]).from
    IN  /\ Len(a) = (n + ChunkSize - 1) \div ChunkSize
        /\ \A k \in 1..Len(a) :
             /\ size(k) > 0
             /\ k < Len(a) => size(k) = ChunkSize
             /\ k = Len(a) => size(k) = n - (Len(a) - 1) * ChunkSize
        /\ ( /\ n = 5 * MiB
             /\ tx.param.type = "text"
             /\ ~tx.param.chunk )
           => /\ Len(tx.msgs) = 4
              /\ tx.msgs[1].action = "reset_chunk"
              /\ [k \in 1..3 |-> size(k)] = <<2 * MiB, 2 * MiB, MiB>>

\* the text of 5 MiB has been sent
C30_Witness ==
  /\ tx.done
  /\ tx.param.type = "text"
  /\ ~tx.param.chunk
  /\ tx.param.data.len = 5 * MiB
  /\ Len(Appends) = 3

(***************************************************************************)
(* Part 6: FetchXHR.send, the callback of xmlhttpRequestFn and the         *)
(* messages of bgXhrInterface and of the offscreen path                    *)
(***************************************************************************)
MaxReads == 2

Ev(type, rs) == [type |-> type, readyState |-> rs]

EventMsg(type, rs) == [action |-> "on", type |-> type, readyState |-> rs]

\* new FetchXHR(...), responseType and timeout as xmlhttpRequestFn sets them
NewFetch(mode, timeout) ==
  [mode |-> mode, timeout |-> timeout, pc |-> "new", readyState |-> 0,
   controller |-> FALSE, signal |-> FALSE, timer |-> FALSE,
   timedOut |-> FALSE, isAborted |-> FALSE, didLoaded |-> FALSE,
   reads |-> 0, failed |-> FALSE, events |-> <<>>]

\* the closure of xmlhttpRequestFn and bgXhrInterface, and msgConn
NewConn(useFetchMode) ==
  [useFetch |-> useFetchMode, canTrigger |-> FALSE,
   finalStateChangeEvent |-> FALSE, queue |-> <<>>, sent |-> <<>>,
   disc |-> FALSE, recv |-> 0]

\* settings.callback: stackAsyncTask(taskId, () => msgConn.sendMessage(msg))
Forward(c, type, rs) ==
  [c EXCEPT !.canTrigger = FALSE, !.finalStateChangeEvent = FALSE,
            !.queue = Append(@, EventMsg(type, rs))]

\* callback(evt) of xmlhttpRequestFn for a FetchXHR
Callback(c, type, rs) ==
  IF type = "load"
  THEN Forward(IF c.finalStateChangeEvent
               THEN Forward(c, "readystatechange", rs)
               ELSE c,
               "load", rs)
  ELSE IF type = "readystatechange" /\ rs = 4 /\ ~c.canTrigger
  THEN [c EXCEPT !.finalStateChangeEvent = TRUE]
  ELSE Forward(c, type, rs)

\* this.on<type>?.({ type })
Emit(s, type) ==
  [fx |-> [s.fx EXCEPT !.events = Append(@, Ev(type, s.fx.readyState))],
   conn |-> Callback(s.conn, type, s.fx.readyState)]

\* this.readyState = rs; this._emitReadyStateChange()
ReadyState(s, rs) ==
  Emit([s EXCEPT !.fx.readyState = rs], "readystatechange")

\* the finally block of send
Finally(s) ==
  Emit([s EXCEPT !.fx.controller = FALSE, !.fx.timer = FALSE,
                 !.fx.pc = "done"], "loadend")

\* variant: the catch block does not return behind ontimeout
Catch_NoReturn(s, err) ==
  LET s1 == [s EXCEPT !.fx.controller = FALSE, !.fx.timer = FALSE]
      s2 == IF s1.fx.timedOut THEN Emit(s1, "timeout") ELSE s1
  IN  Finally(IF err = "AbortError"
              THEN Emit([s2 EXCEPT !.fx.readyState = 0], "abort")
              ELSE Emit(s2, "error"))

\* the catch block of send
Catch(s, err) ==
  LET s1 == [s EXCEPT !.fx.controller = FALSE, !.fx.timer = FALSE]
  IN  Finally(IF s1.fx.timedOut THEN Emit(s1, "timeout")
              ELSE IF err = "AbortError"
              THEN Emit([s1 EXCEPT !.fx.readyState = 0], "abort")
              ELSE Emit(s1, "error"))

\* send from `this.status = res.status` behind the reading of the body
Complete(s) ==
  IF s.fx.isAborted THEN Catch(s, "AbortError")
  ELSE Finally(Emit(ReadyState(s, 4), "load"))

\* firstLoad()
FirstLoad(s) ==
  IF s.fx.didLoaded THEN s
  ELSE ReadyState([s EXCEPT !.fx.didLoaded = TRUE], 3)

\* pushBuffer(chunk) for the k-th chunk of the body
PushBuffer(s, k) ==
  LET param == IF s.fx.mode = "text"
               THEN [chunk |-> TRUE, type |-> "text",
                     data |-> Payload("string", k, 1)]
               ELSE [chunk |-> TRUE,
                     type |-> IF s.fx.mode = "stream" THEN "stream"
                              ELSE "buffer",
                     data |-> Payload("Uint8Array", k, 1)]
  IN  Emit([s EXCEPT !.conn.queue = @ \o onDataReceived(param)], "progress")

Now == [fx |-> fx, conn |-> conn]

Become(s) == fx' = s.fx /\ conn' = s.conn

\* the tasks stacked on taskId have run before the next event is handled
Drained == conn.queue = <<>>

FetchRest == <<permVars, connectVars, netVars, dnr, tx, rp, moreVars>>

\* baseXHR.open(...) and baseXHR.send(...) up to `await fetch(...)`
OpenSend ==
  /\ conn.useFetch
  /\ fx.pc = "new"
  /\ Drained
  /\ Become(Emit([ReadyState(Now, 1) EXCEPT !.fx.controller = TRUE,
                                            !.fx.timer = fx.timeout,
                                            !.fx.pc = "fetch"],
                 "loadstart"))
  /\ UNCHANGED FetchRest

\* fetch resolves with the response, whose body may be null
FetchResolve(bodyNull) ==
  /\ fx.pc = "fetch"
  /\ ~fx.signal
  /\ Drained
  /\ Become(IF bodyNull THEN Catch(ReadyState(Now, 2), "Error")
            ELSE [ReadyState(Now, 2) EXCEPT !.fx.pc = "body"])
  /\ UNCHANGED FetchRest

\* a read of the body gives a chunk
ReadChunk ==
  /\ fx.pc = "body"
  /\ ~fx.signal
  /\ fx.reads < MaxReads
  /\ Drained
  /\ Become(PushBuffer([FirstLoad(Now) EXCEPT !.fx.reads = fx.reads + 1],
                       fx.reads + 1))
  /\ UNCHANGED FetchRest

\* the body has ended; the loop over the decoded text stream calls
\* firstLoad for chunks only
ReadEnd ==
  /\ fx.pc = "body"
  /\ ~fx.signal
  /\ Drained
  /\ Become(Complete(IF fx.mode = "text" THEN Now ELSE FirstLoad(Now)))
  /\ UNCHANGED FetchRest

\* fetch or a read rejects: with an AbortError when the signal was aborted,
\* otherwise for a failure of the network; makeController catches what a
\* read of a stream response throws
Reject ==
  /\ fx.pc \in {"fetch", "body"}
  /\ Drained
  /\ LET s == [Now EXCEPT !.fx.failed = ~fx.signal]
         err == IF fx.signal THEN "AbortError" ELSE "TypeError"
     IN  Become(IF fx.pc = "body" /\ fx.mode = "stream" THEN Complete(s)
                ELSE Catch(s, err))
  /\ UNCHANGED FetchRest

\* the timer of send fires
TimeoutFires ==
  /\ fx.timer
  /\ fx.controller
  /\ Drained
  /\ fx' = [fx EXCEPT !.timer = FALSE, !.timedOut = TRUE, !.signal = TRUE]
  /\ UNCHANGED conn
  /\ UNCHANGED FetchRest

\* msgConn.onDisconnect: isConnDisconnected = true; in the fetch path
\* settings.abort(), in the offscreen path offscreenCon.disconnect()
ConnDisconnect ==
  /\ ~conn.disc
  /\ conn.useFetch => fx.pc # "new"
  /\ Drained
  /\ conn' = [conn EXCEPT !.disc = TRUE]
  /\ fx' = IF conn.useFetch
           THEN [fx EXCEPT !.isAborted = TRUE,
                           !.signal = @ \/ fx.controller]
           ELSE fx
  /\ UNCHANGED FetchRest

\* the task at the head of taskId runs: msgConn.sendMessage(msg)
Deliver ==
  /\ conn.queue # <<>>
  /\ conn' = [conn EXCEPT !.queue = Tail(@),
                          !.sent = Append(@, [msg |-> Head(conn.queue),
                                              late |-> conn.disc])]
  /\ UNCHANGED fx
  /\ UNCHANGED FetchRest

\* the messages the offscreen side sends for a text that loads
OffscreenMsgs ==
  << EventMsg("loadstart", 1), EventMsg("readystatechange", 2),
     EventMsg("readystatechange", 3) >>
  \o onDataReceived([chunk |-> FALSE, type |-> "text",
                     data |-> Payload("string", 1, ChunkSize + 1)])
  \o << EventMsg("readystatechange", 4), EventMsg("load", 4),
        EventMsg("loadend", 4) >>

\* offscreenCon.onMessage of GM_xmlhttpRequest
OffscreenOnMessage ==
  /\ ~conn.useFetch
  /\ conn.recv < Len(OffscreenMsgs)
  /\ conn' = [conn EXCEPT
                !.recv = @ + 1,
                !.sent = IF ~conn.disc
                         THEN Append(@, [msg |-> OffscreenMsgs[conn.recv + 1],
                                         late |-> FALSE])
                         ELSE @]
  /\ UNCHANGED fx
  /\ UNCHANGED FetchRest

FetchModes == {"text", "buffer", "stream"}

FetchInit ==
  /\ PermInit
  /\ ConnectIdle
  /\ NetIdle
  /\ dnr = <<>>
  /\ tx = <<>>
  /\ rp = <<>>
  /\ MoreIdle
  /\ \E useFetchMode \in BOOLEAN :
       /\ conn = NewConn(useFetchMode)
       /\ fx \in { NewFetch(mode, timeout) :
                     mode \in IF useFetchMode THEN FetchModes ELSE {"text"},
                     timeout \in IF useFetchMode THEN BOOLEAN ELSE {FALSE} }

FetchNext ==
  \/ OpenSend
  \/ \E bodyNull \in BOOLEAN : FetchResolve(bodyNull)
  \/ ReadChunk
  \/ ReadEnd
  \/ Reject
  \/ TimeoutFires
  \/ ConnDisconnect
  \/ Deliver
  \/ OffscreenOnMessage

FetchSpec == FetchInit /\ [][FetchNext]_vars

\* the events of the given types FetchXHR has emitted, by their places
EventsOf(types) == { k \in 1..Len(fx.events) : fx.events[k].type \in types }

\* C24: a request that FetchXHR has ended has emitted exactly one of load,
\* error, timeout and abort and, behind it and as its last event, exactly
\* one loadend; a load has a readystatechange with readyState 4 right before
\* it; a request not yet ended has emitted none of the five.
C24_OneOutcomeThenLoadend ==
  conn.useFetch =>
    LET outcome == EventsOf({"load", "error", "timeout", "abort"})
        loadend == EventsOf({"loadend"})
    IN  IF fx.pc = "done"
        THEN /\ Cardinality(outcome) = 1
             /\ loadend = {Len(fx.events)}
             /\ \A k \in outcome :
                  fx.events[k].type = "load" =>
                    /\ k > 1
                    /\ fx.events[k - 1] = Ev("readystatechange", 4)
        ELSE outcome = {} /\ loadend = {}

\* a request was aborted while its body was read, and has ended
C24_Witness ==
  /\ conn.useFetch
  /\ fx.pc = "done"
  /\ fx.reads = 1
  /\ EventsOf({"abort"}) # {}

\* C25: a request whose timer fired before its response was received in
\* full has emitted timeout and no load when it has ended, whatever the
\* response mode; a request that ended on a failure of the network, with
\* neither timeout nor abort, has emitted error.
C25_TimeoutNotLoad ==
  (conn.useFetch /\ fx.pc = "done") =>
    /\ fx.timedOut =>
         (EventsOf({"timeout"}) # {} /\ EventsOf({"load"}) = {})
    /\ (fx.failed /\ ~fx.timedOut /\ ~fx.isAborted) =>
         EventsOf({"error"}) # {}

\* C26: no message is sent to the caller once the disconnection of its
\* channel has been observed, in the fetch path and in the offscreen path.
C26_SilentAfterDisconnect ==
  \A k \in 1..Len(conn.sent) : ~conn.sent[k].late

\* the chunk messages sent to the caller, by their places
ChunkPlaces(action) ==
  { k \in 1..Len(conn.sent) : conn.sent[k].msg.action = action }

\* C29: among the messages of one request an append has a reset before it,
\* no reset comes behind an append, and the appends carry the body in the
\* order of the source.
C29_ResetBeforeAppend ==
  /\ \A k \in ChunkPlaces("append_chunk") :
       \E j \in ChunkPlaces("reset_chunk") : j < k
  /\ \A k \in ChunkPlaces("reset_chunk") :
       \A j \in ChunkPlaces("append_chunk") : k < j
  /\ \A j, k \in ChunkPlaces("append_chunk") :
       j < k =>
         LET a == Carried(conn.sent[j].msg)
             b == Carried(conn.sent[k].msg)
         IN  a.id < b.id \/ (a.id = b.id /\ a.to <= b.from)

(***************************************************************************)
(* Part 7: resultParam, the result fields read for every event message     *)
(***************************************************************************)
\* resultParamStatusCode, resultParamResponseHeader and resultParamFinalUrl
\* of a call as they are declared, with "" as <<>>; `first` is the history
\* of the call: the first non-empty value each getter returned
NewResultParam ==
  [statusCode |-> 0, responseHeader |-> <<>>, finalUrl |-> <<>>,
   first |-> [statusCode |-> 0, responseHeaders |-> <<>>, finalUrl |-> <<>>]]

ResultParam(i) == IF MapHas(rp, i) THEN rp[i] ELSE NewResultParam

\* s += `${h.name}: ${h.value}\n` over the headers
RECURSIVE HeaderString(_)
HeaderString(hs) ==
  IF hs = <<>> THEN <<>>
  ELSE <<Head(hs).name, ": ", Head(hs).value, "\n">> \o HeaderString(Tail(hs))

\* get statusCode(): the map after the read and the variables of the call,
\* whose statusCode is the value returned
statusCodeGet(h, markerID, c) ==
  IF MapHas(h, markerID) /\ h[markerID].statusCode # <<>>
  THEN [map |-> MapSet(h, markerID, [h[markerID] EXCEPT !.statusCode = <<>>]),
        c |-> [c EXCEPT !.statusCode = h[markerID].statusCode[1]]]
  ELSE [map |-> h, c |-> c]

\* get responseHeaders()
responseHeadersGet(h, markerID, c) ==
  IF MapHas(h, markerID) /\ h[markerID].responseHeaders # <<>>
  THEN [map |-> MapSet(h, markerID,
                       [h[markerID] EXCEPT !.responseHeaders = <<>>]),
        c |-> [c EXCEPT !.responseHeader =
                          HeaderString(h[markerID].responseHeaders[1])]]
  ELSE [map |-> h, c |-> c]

\* get finalUrl()
finalUrlGet(r, markerID, c) ==
  [c EXCEPT !.finalUrl = IF MapHas(r, markerID) THEN r[markerID] ELSE <<>>]

\* the history after a read that returned the values held by c
Remember(c, withStatus) ==
  [c EXCEPT
     !.first.statusCode =
        IF @ = 0 /\ withStatus THEN c.statusCode ELSE @,
     !.first.responseHeaders = IF @ = <<>> THEN c.responseHeader ELSE @,
     !.first.finalUrl = IF @ = <<>> THEN c.finalUrl ELSE @]

\* the reads made for one event message of call i: finalUrl and
\* responseHeaders in both paths, statusCode in the offscreen path only
ReadResult(i) ==
  LET markerID == Marker(i)
      c1 == finalUrlGet(redirectedUrls, markerID, ResultParam(i))
      r2 == responseHeadersGet(headersReceivedMap, markerID, c1)
      r3 == IF useFetch(xhr[i].params) THEN r2
            ELSE statusCodeGet(r2.map, markerID, r2.c)
  IN  [map |-> r3.map, c |-> Remember(r3.c, ~useFetch(xhr[i].params))]

\* an event of the request of call i other than loadend reaches the
\* service worker and is sent on with the result fields
ForwardEvent(i) ==
  /\ InFlight(xhr[i])
  /\ useFetch(xhr[i].params) \/ ~xhr[i].disc
  /\ headersReceivedMap' = ReadResult(i).map
  /\ rp' = MapSet(rp, i, ReadResult(i).c)
  /\ UNCHANGED <<xhr, xhrReqEntries, scXhrRequests, redirectedUrls,
                 headerModifierMap, sessionRules, gmXhrRequestId, tasks, now>>
  /\ UNCHANGED <<permVars, connectVars, dnr, tx, fx, conn, moreVars>>

\* the loadend event of the request of call i: the result fields are read
\* for its message, then loadendCleanUp runs
ForwardLoadend(i) ==
  /\ InFlight(xhr[i])
  /\ useFetch(xhr[i].params) \/ ~xhr[i].disc
  /\ LoadendCleanUp(i)
  /\ rp' = MapSet(rp, i, ReadResult(i).c)
  /\ xhr' = [xhr EXCEPT ![i].net = "ended"]
  /\ UNCHANGED <<xhrReqEntries, sessionRules, gmXhrRequestId, tasks, now>>
  /\ UNCHANGED <<permVars, connectVars, dnr, tx, fx, conn, moreVars>>

ResultNext ==
  \/ \E params \in XhrDetails : GM_xmlhttpRequestCall(params)
  \/ \E i \in XhrIds : \E ok \in BOOLEAN : UpdateSessionRules(i, ok)
  \/ \E i \in XhrIds : StackTask(i)
  \/ \E i \in XhrIds : TaskStart(i, TRUE)
  \/ \E i \in XhrIds : OnBeforeRequest(i)
  \/ \E i \in XhrIds : OnBeforeSendHeaders(i)
  \/ \E i \in XhrIds : \E response \in Responses : OnHeadersReceived(i, response)
  \/ \E i \in XhrIds : OnBeforeRedirect(i)
  \/ \E i \in XhrIds : ForwardEvent(i)
  \/ \E i \in XhrIds : ForwardLoadend(i)

ResultSpec == NetInit /\ [][ResultNext]_vars

\* C27: once a getter of resultParam has returned a non-empty value for a
\* call, every later read of it returns that value: the value last returned
\* for finalUrl, responseHeaders and status is the first non-empty one
C27_ReadOnceThenCached ==
  \A i \in DOMAIN rp :
    /\ rp[i].first.finalUrl # <<>> => rp[i].finalUrl = rp[i].first.finalUrl
    /\ rp[i].first.responseHeaders # <<>> =>
         rp[i].responseHeader = rp[i].first.responseHeaders
    /\ rp[i].first.statusCode # 0 => rp[i].statusCode = rp[i].first.statusCode

(***************************************************************************)
(* Part 8: dataEncode and dataDecode                                       *)
(***************************************************************************)
\* the largest number of elements of the buffer under a typed array
MaxElems == 2

\* typedArrayTypes, each with its BYTES_PER_ELEMENT
typedArrayTypes ==
  << [name |-> "Int8Array", size |-> 1],
     [name |-> "Uint8Array", size |-> 1],
     [name |-> "Uint8ClampedArray", size |-> 1],
     [name |-> "Int16Array", size |-> 2],
     [name |-> "Uint16Array", size |-> 2],
     [name |-> "Int32Array", size |-> 4],
     [name |-> "Uint32Array", size |-> 4],
     [name |-> "Float32Array", size |-> 4],
     [name |-> "Float64Array", size |-> 8],
     [name |-> "BigInt64Array", size |-> 8],
     [name |-> "BigUint64Array", size |-> 8] >>

\* typedArrayTypesText.indexOf(type), 0 when there is none
TypeIndex(type) ==
  IF \E k \in 1..Len(typedArrayTypes) : typedArrayTypes[k].name = type
  THEN CHOOSE k \in 1..Len(typedArrayTypes) : typedArrayTypes[k].name = type
  ELSE 0

\* the values: undefined, null, primitives, objects and arrays (with what
\* JSON.stringify does with them), URLSearchParams, ArrayBuffer, and the
\* views of a buffer (typed arrays and DataView) with their byte offset and
\* byte length
Undefined == [t |-> "undefined"]

Null == [t |-> "null"]

Primitive(ty, val) == [t |-> "primitive", typeof |-> ty, val |-> val]

Object(isArray, content, circular) ==
  [t |-> "object", isArray |-> isArray, content |-> content,
   circular |-> circular]

UrlParams(query) == [t |-> "URLSearchParams", query |-> query]

\* an ArrayBuffer of n bytes; the byte at position k holds k
Buffer(n) == [k \in 1..n |-> k]

ArrayBufferOf(bytes) == [t |-> "ArrayBuffer", buffer |-> bytes]

View(kind, bytes, byteOffset, byteLength) ==
  [t |-> "view", kind |-> kind, buffer |-> bytes, byteOffset |-> byteOffset,
   byteLength |-> byteLength]

\* the bytes a view shows
ViewBytes(v) == SubSeq(v.buffer, v.byteOffset + 1, v.byteOffset + v.byteLength)

\* strings, numbers and booleans, each written as the characters of its value
Primitives ==
  { Primitive("string", s) : s \in {<<>>, <<"a">>, <<"n", "u", "l", "l">>} }
    \cup { Primitive("number", n) : n \in {<<"0">>, <<"1">>} }
    \cup { Primitive("boolean", b) : b \in {<<"true">>, <<"false">>} }

Objects ==
  { Object(a, c, circ) : a \in BOOLEAN, c \in {<<>>, <<"x">>},
                         circ \in BOOLEAN }

\* the typed arrays over a buffer of up to MaxElems elements, with or without
\* a byte behind the last element, from every element offset and of every
\* length that fits
TypedArrays ==
  { View(typedArrayTypes[k].name,
         Buffer(b * typedArrayTypes[k].size + r),
         o * typedArrayTypes[k].size,
         l * typedArrayTypes[k].size) :
      k \in 1..Len(typedArrayTypes), r \in {0, 1},
      b \in 0..MaxElems, o \in 0..MaxElems, l \in 0..MaxElems }

\* the views of the bytes from byteOffset on, byteLength long, that fit
Fits(v) == v.byteOffset + v.byteLength <= Len(v.buffer)

DataViews ==
  { View("DataView", Buffer(n), o, l) :
      n \in 0..MaxElems, o \in 0..MaxElems, l \in 0..MaxElems }

CodecValues ==
  {Undefined, Null} \cup Primitives \cup Objects
    \cup { UrlParams(q) : q \in {<<>>, <<"a", "=", "1">>} }
    \cup { ArrayBufferOf(Buffer(n)) : n \in 0..MaxElems }
    \cup { v \in TypedArrays \cup DataViews : Fits(v) }

\* JSON.stringify: the text of an object or array; JSON.parse gives the
\* value of a text back
JsonText(isArray, content) == [json |-> content, isArray |-> isArray]

ExtData(type, m) == [type |-> type, m |-> m]

\* variant: the fallback text of an object is used for arrays too
FallbackText_Object(kData) == JsonText(FALSE, <<>>)

\* str = Array.isArray(kData) ? "[]" : "{}"
FallbackText(kData) == JsonText(kData.isArray, <<>>)

\* the bytes dataEncode hands to uint8ToBase64 for a typed array: the array
\* itself when it is a Uint8Array, a Uint8Array over kData.buffer otherwise
EncodedBytes(kData) ==
  IF kData.kind = "Uint8Array" THEN ViewBytes(kData) ELSE kData.buffer

\* dataEncode(kData)
dataEncode(kData) ==
  CASE kData.t = "view" /\ kData.kind = "DataView" ->
         ExtData("DataView", uint8ToBase64(ViewBytes(kData)))
    [] kData.t = "URLSearchParams" ->
         ExtData("URLSearchParams", [text |-> kData.query])
    [] kData.t = "view" /\ kData.kind # "DataView" ->
         ExtData(typedArrayTypes[TypeIndex(kData.kind)].name,
                 uint8ToBase64(EncodedBytes(kData)))
    [] kData.t = "ArrayBuffer" ->
         ExtData("ArrayBuffer", uint8ToBase64(kData.buffer))
    [] kData.t = "object" ->
         ExtData("object",
                 IF kData.circular THEN FallbackText(kData)
                 ELSE JsonText(kData.isArray, kData.content))
    [] kData.t = "primitive" -> ExtData(kData.typeof, kData.val)
    [] kData.t = "null" -> ExtData("null", Null)
    [] kData.t = "undefined" -> ExtData("undefined", Null)

\* new T(ubuf.buffer): a RangeError when the byte length of the buffer is no
\* multiple of the element size
NewTypedArray(idx, bytes) ==
  IF Len(bytes) % typedArrayTypes[idx].size # 0
  THEN [t |-> "RangeError"]
  ELSE View(typedArrayTypes[idx].name, bytes, 0, Len(bytes))

\* dataDecode(pData)
dataDecode(pData) ==
  CASE pData.type = "null" -> Null
    [] pData.type = "undefined" -> Undefined
    [] pData.type = "object" ->
         Object(pData.m.isArray, pData.m.json, FALSE)
    [] pData.type = "DataView" ->
         LET ubuf == base64ToUint8(pData.m)
         IN  View("DataView", ubuf, 0, Len(ubuf))
    [] pData.type = "ArrayBuffer" -> ArrayBufferOf(base64ToUint8(pData.m))
    [] pData.type = "URLSearchParams" -> UrlParams(pData.m.text)
    [] OTHER ->
         LET idx == TypeIndex(pData.type)
         IN  IF idx > 0
             THEN NewTypedArray(idx, base64ToUint8(pData.m))
             ELSE Primitive(pData.type, pData.m)

CodecInit ==
  /\ PermInit
  /\ ConnectIdle
  /\ NetIdle
  /\ dnr = <<>> /\ tx = <<>> /\ fx = <<>> /\ conn = <<>> /\ rp = <<>>
  /\ bx = <<>> /\ nx = <<>> /\ et = <<>> /\ mg = <<>>
  /\ cd \in [v : CodecValues, pc : {"value"}, ext : {<<>>}, out : {<<>>}]

CodecRest ==
  <<permVars, connectVars, netVars, dnr, tx, fx, conn, rp, bx, nx, et, mg>>

\* the sender encodes the value
DataEncode ==
  /\ cd.pc = "value"
  /\ cd' = [cd EXCEPT !.pc = "encoded", !.ext = dataEncode(cd.v)]
  /\ UNCHANGED CodecRest

\* the receiver decodes what it was sent
DataDecode ==
  /\ cd.pc = "encoded"
  /\ cd' = [cd EXCEPT !.pc = "decoded", !.out = dataDecode(cd.ext)]
  /\ UNCHANGED CodecRest

CodecNext == DataEncode \/ DataDecode

CodecSpec == CodecInit /\ [][CodecNext]_vars

\* two values are observably equal: the same kind of value with the same
\* content; views are of the same type and show the same bytes
ObservablyEqual(a, b) ==
  /\ a.t = b.t
  /\ a.t = "primitive" => (a.typeof = b.typeof /\ a.val = b.val)
  /\ a.t = "object" => (a.isArray = b.isArray /\ a.content = b.content)
  /\ a.t = "URLSearchParams" => a.query = b.query
  /\ a.t = "ArrayBuffer" => a.buffer = b.buffer
  /\ a.t = "view" => (a.kind = b.kind /\ ViewBytes(a) = ViewBytes(b))

\* C31: the decoded value is observably equal to the value encoded, for
\* strings, null, undefined, objects that JSON can write, URLSearchParams and
\* typed arrays of every kind, views of a part of their buffer included
C31_RoundTrip ==
  ( /\ cd.pc = "decoded"
    /\ cd.v.t \in {"primitive", "null", "undefined", "object",
                   "URLSearchParams", "view"}
    /\ cd.v.t = "primitive" => cd.v.typeof = "string"
    /\ cd.v.t = "object" => ~cd.v.circular
    /\ cd.v.t = "view" => cd.v.kind # "DataView" )
  => ObservablyEqual(cd.out, cd.v)

\* C32: an object or array is always encoded, with the text {} or [] when
\* JSON.stringify throws; null and undefined are encoded with their own tags
\* and decoded to null and undefined; primitives are encoded as they are
C32_EncodeNeverThrows ==
  /\ ( cd.pc # "value" /\ cd.v.t = "object" ) =>
       /\ cd.ext.type = "object"
       /\ cd.v.circular => cd.ext.m = JsonText(cd.v.isArray, <<>>)
       /\ ~cd.v.circular => cd.ext.m = JsonText(cd.v.isArray, cd.v.content)
  /\ ( cd.pc # "value" /\ cd.v.t \in {"null", "undefined"} ) =>
       cd.ext.type = cd.v.t
  /\ ( cd.pc = "decoded" /\ cd.v.t \in {"null", "undefined"} ) =>
       cd.out = cd.v
  /\ ( cd.pc # "value" /\ cd.v.t = "primitive" ) =>
       cd.ext = ExtData(cd.v.typeof, cd.v.val)
  /\ ( cd.pc = "decoded" /\ cd.v.t = "primitive" ) => cd.out = cd.v

C32_Witness ==
  /\ cd.pc = "decoded"
  /\ cd.v.t = "object" /\ cd.v.isArray /\ cd.v.circular
  /\ cd.ext.m = JsonText(TRUE, <<>>)

(***************************************************************************)
(* Part 9: backgroundXhrAPI, the order of the messages of one request      *)
(***************************************************************************)
\* the largest number of events of the request
MaxEvents == 3

\* the key of the tasks of the request
TaskId == "taskId"

\* what the request hands to settings.onDataReceived and settings.callback
OrderParams == { p \in DataParams : p.data.len \in {0, 1, ChunkSize + 1} }

OrderItems ==
  { [data |-> TRUE, param |-> p, eventType |-> ""] : p \in OrderParams }
    \cup { [data |-> FALSE, param |-> <<>>, eventType |-> e] :
             e \in {"readystatechange", "load", "loadend"} }

\* the item as event number i of the request: its payload is told from the
\* payloads of the other events
Numbered(item, i) ==
  IF item.data THEN [item EXCEPT !.param.data.id = i] ELSE item

\* the messages the task of an item sends
ItemMsgs(item) ==
  IF item.data THEN onDataReceived(item.param)
  ELSE << [action |-> "on", type |-> item.eventType, chunk |-> <<>>] >>

SentAs(i, msgs) == [k \in 1..Len(msgs) |-> [ev |-> i, msg |-> msgs[k]]]

\* variant: the read of the blob is not awaited by the task
Awaits_Nothing(item) == FALSE

\* the task of the item waits for param.data.arrayBuffer() before it sends
Awaits(item) == item.data /\ item.param.data.kind = "Blob"

OrderInit ==
  /\ PermInit
  /\ ConnectIdle
  /\ NetIdle
  /\ dnr = <<>> /\ tx = <<>> /\ fx = <<>> /\ conn = <<>> /\ rp = <<>>
  /\ cd = <<>> /\ nx = <<>> /\ et = <<>> /\ mg = <<>>
  /\ bx = [items |-> <<>>, tasks |-> <<>>, reading |-> {}, sent |-> <<>>]

OrderRest ==
  <<permVars, connectVars, netVars, dnr, tx, fx, conn, rp, cd, nx, et, mg>>

\* settings.onDataReceived or settings.callback is called: the task of the
\* item is stacked
Stack(item) ==
  /\ Len(bx.items) < MaxEvents
  /\ bx' = [bx EXCEPT
              !.items = Append(@, Numbered(item, Len(bx.items) + 1)),
              !.tasks = TaskPush(@, TaskId, Len(bx.items) + 1)]
  /\ UNCHANGED OrderRest

\* the task of event i starts: it sends its messages and ends, or it starts
\* the read of the blob and ends when the read has ended
TaskRun(i) ==
  /\ TaskCanStart(bx.tasks, TaskId, i)
  /\ i \notin bx.reading
  /\ IF bx.items[i].data /\ bx.items[i].param.data.kind = "Blob"
     THEN bx' = [bx EXCEPT !.reading = @ \cup {i},
                           !.tasks = IF Awaits(bx.items[i]) THEN @
                                     ELSE TaskShift(@, TaskId)]
     ELSE bx' = [bx EXCEPT !.sent = @ \o SentAs(i, ItemMsgs(bx.items[i])),
                           !.tasks = TaskShift(@, TaskId)]
  /\ UNCHANGED OrderRest

\* param.data.arrayBuffer() of event i is settled: the chunks are sent, or
\* the rejection is caught and logged
BlobRead(i, ok) ==
  /\ i \in bx.reading
  /\ bx' = [bx EXCEPT
              !.reading = @ \ {i},
              !.sent = IF ok THEN @ \o SentAs(i, ItemMsgs(bx.items[i]))
                       ELSE @,
              !.tasks = IF Awaits(bx.items[i]) THEN TaskShift(@, TaskId)
                        ELSE @]
  /\ UNCHANGED OrderRest

OrderNext ==
  \/ \E item \in OrderItems : Stack(item)
  \/ \E i \in 1..MaxEvents : TaskRun(i)
  \/ \E i \in 1..MaxEvents : \E ok \in BOOLEAN : BlobRead(i, ok)

OrderSpec == OrderInit /\ [][OrderNext]_vars

\* the messages of event i among the messages sent
SentOf(i) == SelectSeq(bx.sent, LAMBDA s : s.ev = i)

\* C33: the messages are sent in the order of their events, the chunk
\* messages of a data event before the message of every later event and
\* never mixed with those of another data event; the messages of an event
\* are all of its messages in their order, or none when its read failed
C33_MessagesInEventOrder ==
  /\ \A j, k \in 1..Len(bx.sent) : j < k => bx.sent[j].ev <= bx.sent[k].ev
  /\ \A i \in 1..Len(bx.items) :
       \/ SentOf(i) = SentAs(i, ItemMsgs(bx.items[i]))
       \/ SentOf(i) = <<>>

C33_Witness ==
  \E j, k \in 1..Len(bx.sent) :
    /\ j < k
    /\ bx.sent[j].msg.action = "append_chunk"
    /\ bx.items[bx.sent[j].ev].param.data.kind = "Blob"
    /\ bx.sent[k].msg.type = "load"
    /\ \E m \in 1..Len(bx.sent) :
         bx.sent[m].msg.type = "loadend" /\ k < m

(***************************************************************************)
(* The decision of the confirm callback of GM_xmlhttpRequest               *)
(***************************************************************************)
\* the entries of the list that match the request, by their positions
Matching == { i \in 1..Len(cm.list) : EntryMatches(cm.list[i], cm.url, cm.sender) }

\* the first of them
FirstMatch == CHOOSE i \in Matching : \A j \in Matching : i <= j

MaxRepeat == 2

\* details.responseType of the requests that use XMLHttpRequest
NativeTypes == {"", "text", "arraybuffer", "blob", "document", "json"}

\* baseXHR.responseType as set behind open(): json stays text
BaseResponseType(responseType) ==
  IF responseType = "json" THEN "" ELSE responseType

NativeEvent(type, rs) == [data |-> FALSE, type |-> type, readyState |-> rs]

NativeData(type) == [data |-> TRUE, type |-> type, readyState |-> 4]

\* the part of callback behind the deferral: settings.onDataReceived for a
\* readystatechange with readyState 4, then settings.callback
NativeForward(c, type) ==
  LET body == IF c.readyState = 4 /\ type = "readystatechange"
              THEN IF c.responseType \in {"", "text"}
                   THEN << NativeData("text") >>
                   ELSE IF c.responseType \in {"arraybuffer", "blob",
                                               "document"}
                   THEN << NativeData(c.responseType) >>
                   ELSE <<>>
              ELSE <<>>
  IN  [c EXCEPT !.canTrigger = FALSE, !.finalStateChangeEvent = FALSE,
                !.out = @ \o body \o << NativeEvent(type, c.readyState) >>]

\* variant: a readystatechange with readyState 4 is never held back
NativeCallback_NoDeferral(c, type) ==
  IF type = "load"
  THEN NativeForward(IF c.finalStateChangeEvent
                     THEN NativeForward(c, "readystatechange")
                     ELSE c,
                     "load")
  ELSE NativeForward(c, type)

\* callback(evt) of xmlhttpRequestFn for an XMLHttpRequest
NativeCallback(c, type) ==
  IF type = "load"
  THEN NativeForward(IF c.finalStateChangeEvent
                     THEN NativeForward([c EXCEPT !.canTrigger = TRUE],
                                        "readystatechange")
                     ELSE c,
                     "load")
  ELSE IF type = "readystatechange" /\ c.readyState = 4 /\ ~c.canTrigger
  THEN [c EXCEPT !.finalStateChangeEvent = TRUE]
  ELSE NativeForward(c, type)

NativeInit ==
  /\ PermInit
  /\ ConnectIdle
  /\ NetIdle
  /\ dnr = <<>> /\ tx = <<>> /\ fx = <<>> /\ conn = <<>> /\ rp = <<>>
  /\ cd = <<>> /\ bx = <<>> /\ et = <<>> /\ mg = <<>>
  /\ nx \in [responseType : {BaseResponseType(r) : r \in NativeTypes},
             pc : {"opened"}, readyState : {1}, headers : {FALSE},
             final : {0}, progress : {0}, canTrigger : {FALSE},
             finalStateChangeEvent : {FALSE}, out : {<<>>}]

NativeRest ==
  <<permVars, connectVars, netVars, dnr, tx, fx, conn, rp, cd, bx, et, mg>>

\* send(): loadstart
NativeLoadStart ==
  /\ nx.pc = "opened"
  /\ nx' = NativeCallback([nx EXCEPT !.pc = "sent"], "loadstart")
  /\ UNCHANGED NativeRest

\* the headers of the response have arrived: readyState 2
NativeHeaders ==
  /\ nx.pc = "sent"
  /\ nx' = NativeCallback([nx EXCEPT !.pc = "headers", !.headers = TRUE,
                                     !.readyState = 2],
                          "readystatechange")
  /\ UNCHANGED NativeRest

\* the body begins to arrive: readyState 3
NativeLoading ==
  /\ nx.pc = "headers"
  /\ nx' = NativeCallback([nx EXCEPT !.pc = "loading", !.readyState = 3],
                          "readystatechange")
  /\ UNCHANGED NativeRest

\* a progress event while the body arrives
NativeProgress ==
  /\ nx.pc = "loading"
  /\ nx.progress < MaxRepeat
  /\ nx' = NativeCallback([nx EXCEPT !.progress = @ + 1], "progress")
  /\ UNCHANGED NativeRest

\* the request is done, with a response or without: readyState 4; the event
\* may be dispatched again before and behind the event of the outcome
NativeDone ==
  /\ nx.pc \in {"sent", "headers", "loading", "done", "outcome"}
  /\ nx.final < MaxRepeat
  /\ nx' = NativeCallback([nx EXCEPT
                             !.pc = IF @ = "outcome" THEN @ ELSE "done",
                             !.readyState = 4, !.final = @ + 1],
                          "readystatechange")
  /\ UNCHANGED NativeRest

\* load for a response that arrived, or error, timeout or abort
NativeOutcome(type) ==
  /\ nx.pc = "done"
  /\ type = "load" => nx.headers
  /\ nx' = NativeCallback([nx EXCEPT !.pc = "outcome"], type)
  /\ UNCHANGED NativeRest

NativeLoadEnd ==
  /\ nx.pc = "outcome"
  /\ nx' = NativeCallback([nx EXCEPT !.pc = "ended"], "loadend")
  /\ UNCHANGED NativeRest

NativeNext ==
  \/ NativeLoadStart
  \/ NativeHeaders
  \/ NativeLoading
  \/ NativeProgress
  \/ NativeDone
  \/ \E type \in {"load", "error", "timeout", "abort"} : NativeOutcome(type)
  \/ NativeLoadEnd

NativeSpec == NativeInit /\ [][NativeNext]_vars

\* the places in what was handed on of the readystatechange events with
\* readyState 4, of the load events and of the response bodies
FinalPlaces ==
  { k \in 1..Len(nx.out) :
      /\ ~nx.out[k].data
      /\ nx.out[k].type = "readystatechange"
      /\ nx.out[k].readyState = 4 }

LoadPlaces == { k \in 1..Len(nx.out) : ~nx.out[k].data /\ nx.out[k].type = "load" }

DataPlaces == { k \in 1..Len(nx.out) : nx.out[k].data }

\* C35: at most one readystatechange with readyState 4 is handed on, and
\* the load event follows it at once; the response body is handed to
\* onDataReceived once when the request loads, right before that event,
\* and never otherwise
C35_OneFinalStateChange ==
  /\ Cardinality(FinalPlaces) <= 1
  /\ \A k \in FinalPlaces : k + 1 \in LoadPlaces
  /\ \A k \in DataPlaces : k + 1 \in FinalPlaces
  /\ LoadPlaces # {} => Cardinality(DataPlaces) = 1
  /\ LoadPlaces = {} => DataPlaces = {}

\* the event was dispatched twice before load; the request has ended
C35_Witness ==
  /\ nx.pc = "ended"
  /\ nx.final = 2
  /\ LoadPlaces # {}
  /\ \E k \in LoadPlaces : k + 1 = Len(nx.out)
  /\ Cardinality(FinalPlaces) = 1

(***************************************************************************)
(* Part 12: permission_verify.ts, the confirm signal and the management   *)
(* of the decisions (userConfirm, clearCache, resetPermission,            *)
(* addPermission, deletePermission)                                       *)
(***************************************************************************)
MaxManage == 1

MaxManageCalls == 1

\* the scripts whose decisions are managed
ManageUuids == {"s1", "s2"}

\* the permissions addPermission is called with
AddModels ==
  { [uuid |-> "s2", permission |-> "cookie", permissionValue |-> Wild,
     allow |-> TRUE],
    [uuid |-> "s1", permission |-> "cors", permissionValue |-> HostOther,
     allow |-> TRUE] }

\* the keys deletePermission is called with: a stored one and an absent one
DeleteKeys ==
  { <<"s2", "cookie", Wild>>, <<"s1", "cors", HostApiExample>> }

NoJob == [op |-> "none", uuid |-> "", pc |-> "none", found |-> {},
          error |-> ""]

NewManage ==
  [ sig |-> [flip |-> FALSE, uuid |-> 0, type |-> 0, pending |-> FALSE,
             reply |-> "none"],
    job |-> NoJob,       \* the management call under way or completed
    dels |-> {},         \* PermissionDAO.delete calls nobody awaits
    clears |-> {},       \* clearCache calls under way
    count |-> 0 ]

\* the state the management part leaves alone
manageRest ==
  <<connectVars, netVars, dnr, tx, fx, conn, rp, cd, bx, nx, et>>

ManageInit ==
  /\ PermInit
  /\ ConnectIdle
  /\ NetIdle
  /\ dnr = <<>> /\ tx = <<>> /\ fx = <<>> /\ conn = <<>> /\ rp = <<>>
  /\ cd = <<>> /\ bx = <<>> /\ nx = <<>> /\ et = <<>>
  /\ mg = NewManage

Pending(u) == \E e \in confirmMap : e.uuid = u

\* variant: an unknown id fails whatever the type of the answer
userConfirmReply_AlwaysThrows(pending, type) ==
  IF ~pending THEN "confirm not found" ELSE "true"

\* userConfirm(data): what the handler returns or throws
userConfirmReply(pending, type) ==
  IF ~pending
  THEN IF type = 0 THEN "undefined" ELSE "confirm not found"
  ELSE "true"

\* the "confirm" message is handled and its sender gets the reply
ConfirmSignal(u, answer) ==
  /\ UserConfirmEffect(u, answer)
  /\ mg' = [mg EXCEPT !.sig = [flip |-> ~mg.sig.flip, uuid |-> u,
                               type |-> answer.type, pending |-> Pending(u),
                               reply |-> userConfirmReply(Pending(u),
                                                          answer.type)]]
  /\ UNCHANGED manageRest

\* the text of a cache key of CacheKey.permissionConfirm, up to the value
CacheKeyText(key) == <<"permission:", key[1], ":", key[2], ":">> \o key[3]

\* `key.startsWith(`permission:${uuid}:`)`
ClearMatches(key, uuid) == StartsWith(CacheKeyText(key), <<"permission:", uuid, ":">>)

\* a call of clearCache(uuid) up to `await Cache.getInstance().list()`
NewClear(uuid) == [uuid |-> uuid, pc |-> "list", keys |-> {}]

CanManage == mg.job.pc \in {"none", "done"} /\ mg.count < MaxManage

\* clearCache(uuid) called on its own
ClearCache(uuid) ==
  /\ CanManage
  /\ mg' = [mg EXCEPT !.job = [NoJob EXCEPT !.op = "clearCache",
                                            !.uuid = uuid, !.pc = "done"],
                      !.clears = @ \cup {NewClear(uuid)},
                      !.count = @ + 1]
  /\ UNCHANGED permVars
  /\ UNCHANGED manageRest

\* clearCache: list() resolved with the keys the cache holds now
ClearList(k) ==
  /\ k \in mg.clears
  /\ k.pc = "list"
  /\ mg' = [mg EXCEPT !.clears = (@ \ {k}) \cup
                 {[k EXCEPT !.pc = "del", !.keys = { x.key : x \in cache }]}]
  /\ UNCHANGED permVars
  /\ UNCHANGED manageRest

\* clearCache: del(key) for every listed key of the script
ClearDel(k) ==
  /\ k \in mg.clears
  /\ k.pc = "del"
  /\ cache' = { x \in cache :
                  ~(x.key \in k.keys /\ ClearMatches(x.key, k.uuid)) }
  /\ mg' = [mg EXCEPT !.clears = @ \ {k}]
  /\ UNCHANGED <<calls, confirmQueue, worker, confirmMap, timers, nextUuid,
                 store, pushLog, allScope>>
  /\ UNCHANGED manageRest

\* resetPermission(uuid) up to the records find() resolved with
ResetPermission(uuid) ==
  /\ CanManage
  /\ mg' = [mg EXCEPT !.job = [NoJob EXCEPT !.op = "resetPermission",
                                 !.uuid = uuid, !.pc = "found",
                                 !.found = { m \in store : m.uuid = uuid }],
                      !.count = @ + 1]
  /\ UNCHANGED permVars
  /\ UNCHANGED manageRest

\* resetPermission: delete() is called for every record found and
\* clearCache(uuid) is called, none of them awaited; the call completes
ResetFire ==
  /\ mg.job.op = "resetPermission"
  /\ mg.job.pc = "found"
  /\ mg' = [mg EXCEPT !.job.pc = "done",
                      !.dels = @ \cup { DAOKey(m) : m \in mg.job.found },
                      !.clears = @ \cup {NewClear(mg.job.uuid)}]
  /\ UNCHANGED permVars
  /\ UNCHANGED manageRest

\* PermissionDAO.delete(key)
DAODelete(st, key) == { m \in st : DAOKey(m) # key }

\* a delete() of resetPermission takes effect
DaoDelete(key) ==
  /\ key \in mg.dels
  /\ store' = DAODelete(store, key)
  /\ mg' = [mg EXCEPT !.dels = @ \ {key}]
  /\ UNCHANGED <<calls, confirmQueue, worker, confirmMap, timers, nextUuid,
                 cache, pushLog, allScope>>
  /\ UNCHANGED manageRest

\* addPermission(permission): the save is awaited, clearCache is not
AddPermission(permission) ==
  /\ CanManage
  /\ store' = DAOSave(store, permission)
  /\ mg' = [mg EXCEPT !.job = [NoJob EXCEPT !.op = "addPermission",
                                 !.uuid = permission.uuid, !.pc = "done"],
                      !.clears = @ \cup {NewClear(permission.uuid)},
                      !.count = @ + 1]
  /\ UNCHANGED <<calls, confirmQueue, worker, confirmMap, timers, nextUuid,
                 cache, pushLog, allScope>>
  /\ UNCHANGED manageRest

\* deletePermission(data): the delete is awaited, clearCache is not
DeletePermission(key) ==
  LET oldConfirm == findByKey(store, key[1], key[2], key[3])
  IN  /\ CanManage
      /\ IF oldConfirm = {}
         THEN /\ mg' = [mg EXCEPT !.job = [NoJob EXCEPT
                                     !.op = "deletePermission",
                                     !.uuid = key[1], !.pc = "done",
                                     !.error = "permission not found"],
                                  !.count = @ + 1]
              /\ UNCHANGED store
         ELSE /\ store' = DAODelete(store, key)
              /\ mg' = [mg EXCEPT !.job = [NoJob EXCEPT
                                     !.op = "deletePermission",
                                     !.uuid = key[1], !.pc = "done",
                                     !.found = oldConfirm],
                                  !.clears = @ \cup {NewClear(key[1])},
                                  !.count = @ + 1]
      /\ UNCHANGED <<calls, confirmQueue, worker, confirmMap, timers,
                     nextUuid, cache, pushLog, allScope>>
      /\ UNCHANGED manageRest

\* the permission part with the reply of every "confirm" message recorded
SignalNext ==
  \/ \E request \in Requests : Verify(request)
  \/ \E c \in 1..MaxCalls : PushConfirmQueue(c)
  \/ DealPop
  \/ DealConfirm
  \/ \E u \in Uuids : \E answer \in SignalAnswers(u) : ConfirmSignal(u, answer)
  \/ \E u \in Uuids : ConfirmTimeout(u)
  \/ DealTimedOut
  \/ DealAnswered
  \/ DealPersist

SignalSpec == ManageInit /\ [][SignalNext]_vars

\* the requests made while the decisions are managed
ManageRequests == { r \in Requests : r.uuid \in ManageUuids /\ r.hostname # NoHost }

\* the management calls next to the requests of the scripts
ManageNext ==
  \/ \E request \in ManageRequests :
        Len(calls) < MaxManageCalls /\ Verify(request)
  \/ \E c \in 1..MaxCalls : PushConfirmQueue(c)
  \/ DealPop
  \/ DealConfirm
  \/ \E u \in Uuids : \E answer \in SignalAnswers(u) : UserConfirm(u, answer)
  \/ \E u \in Uuids : ConfirmTimeout(u)
  \/ DealTimedOut
  \/ DealAnswered
  \/ DealPersist
  \/ \E uuid \in ManageUuids : ClearCache(uuid)
  \/ \E k \in mg.clears : ClearList(k)
  \/ \E k \in mg.clears : ClearDel(k)
  \/ \E uuid \in ManageUuids : ResetPermission(uuid)
  \/ ResetFire
  \/ \E key \in mg.dels : DaoDelete(key)
  \/ \E permission \in AddModels : AddPermission(permission)
  \/ \E key \in DeleteKeys : DeletePermission(key)

ManageSpec == ManageInit /\ [][ManageNext]_vars

\* C36: a confirm signal whose id is not pending changes nothing of
\* PermissionVerify (no promise settled, confirmMap, timers, the decision
\* cache and the store as before); its sender gets "confirm not found",
\* or undefined when the answer is of type 0; a signal for a pending id
\* removes the id, and an id that was handed out and is no longer pending
\* never becomes pending again, so that a confirmation is answered at most
\* once
C36_StaleSignalChangesNothing ==
  [][ /\ (mg'.sig # mg.sig /\ ~mg'.sig.pending)
         => /\ permVars' = permVars
            /\ mg'.sig.reply = IF mg'.sig.type = 0 THEN "undefined"
                               ELSE "confirm not found"
      /\ (mg'.sig # mg.sig /\ mg'.sig.pending)
         => /\ mg'.sig.reply = "true"
            /\ ~(\E e \in confirmMap' : e.uuid = mg'.sig.uuid)
      /\ \A u \in 1..(nextUuid - 1) : ~Pending(u) => ~(\E e \in confirmMap' : e.uuid = u)
    ]_vars

\* a signal of a type other than 0 arrived for an id that had been answered
\* before, while another call was being dealt with
C36_Witness ==
  /\ mg.sig.reply = "confirm not found"
  /\ mg.sig.uuid < nextUuid
  /\ \E c \in 1..Len(calls) : calls[c].st = "done" /\ calls[c].prompts > 0

\* C37: when resetPermission(uuid) completes, no persisted and no cached
\* decision of that script remains
C37_ResetLeavesNothing ==
  [][ (mg.job.pc # "done" /\ mg'.job.pc = "done"
       /\ mg'.job.op = "resetPermission")
      => /\ ~(\E m \in store' : m.uuid = mg'.job.uuid)
         /\ ~(\E x \in cache' : x.key[1] = mg'.job.uuid)
    ]_vars

\* clearCache(uuid) removes the cached decisions of the script that it
\* listed and none of another script
ClearCacheSelective ==
  [][ \A k \in mg.clears :
        (k.pc = "del" /\ k \notin mg'.clears)
        => /\ \A x \in cache : x.key[1] # k.uuid => x \in cache'
           /\ \A x \in cache' : x.key[1] = k.uuid => x.key \notin k.keys
    ]_vars

(***************************************************************************)
(* Part 11: ext-timer.ts, ExtTimer with its AsyncQueue and MinHeap; times  *)
(* are milliseconds counted from an instant that is a multiple of every    *)
(* bucket period                                                           *)
(***************************************************************************)
MaxTasks == 2

MaxConcurrency == 2

MaxNow == 150000

\* DEFAULTS
HANDLER_TIMEOUT_MS == 30000
BUCKET_SKEW_TOLERANCE_MS == 10000
MIN_GRANULARITY_MS == 60000
DRIFT_THRESHOLD_MS == 65000
RESCHED_MIN_DELAY_MS == 8000
RESCHED_MAX_DELAY_MS == 24000

\* the options the timer is built with: buckets of one and of five minutes,
\* and the number of jobs at a time
bucketMinutes == <<1, 5>>
Concurrencies == 1..MaxConcurrency

\* the ids uid() hands out, in this order
TaskIds == <<"t1", "t2", "t3", "t4", "t5">>

\* the options schedule() is called with; 0 stands for an option left out
ScheduleOptions ==
  { [delayMs |-> 0, whenMs |-> 0, periodMs |-> 0],
    [delayMs |-> 0, whenMs |-> 60000, periodMs |-> 0],
    [delayMs |-> 0, whenMs |-> 0, periodMs |-> 60000] }

\* how far the clock moves between two events
ClockSteps == {30000}

Abs(x) == IF x < 0 THEN -x ELSE x
MaxOf(x, y) == IF x < y THEN y ELSE x
MinOf(x, y) == IF x < y THEN x ELSE y

\* Math.ceil(a / b) for b > 0
CeilDiv(a, b) == -((-a) \div b)

\* Math.round(a / b) for b > 0: halves go up
RoundDiv(a, b) == (2 * a + b) \div (2 * b)

nextBucketWhenMs(n, m, toleranceMs) ==
  CeilDiv(n - toleranceMs, m * 60000) * (m * 60000)

fitsBucket(due, m, tolMs) ==
  Abs(RoundDiv(due, m * 60000) * (m * 60000) - due) <= tolMs

\* MinHeap: the array a, with the root at index 1
Swap(a, i, j) == [a EXCEPT ![i] = a[j], ![j] = a[i]]

RECURSIVE HeapUp(_, _)
HeapUp(a, i) ==
  IF i = 1 THEN a
  ELSE LET p == i \div 2
       IN  IF a[p].due <= a[i].due THEN a ELSE HeapUp(Swap(a, p, i), p)

RECURSIVE HeapDown(_, _)
HeapDown(a, i) ==
  LET n == Len(a)
      l == 2 * i
      r == l + 1
      m1 == IF l <= n /\ a[l].due < a[i].due THEN l ELSE i
      m2 == IF r <= n /\ a[r].due < a[m1].due THEN r ELSE m1
  IN  IF m2 = i THEN a ELSE HeapDown(Swap(a, m2, i), m2)

HeapPush(a, v) == HeapUp(Append(a, v), Len(a) + 1)

HeapPop(a) ==
  LET rest == SubSeq(a, 1, Len(a) - 1)
  IN  IF rest = <<>> THEN rest
      ELSE HeapDown([rest EXCEPT ![1] = a[Len(a)]], 1)

RECURSIVE Reheap(_, _)
Reheap(a, i) == IF i < 1 THEN a ELSE Reheap(HeapDown(a, i), i - 1)

HeapRemoveId(a, id) ==
  LET kept == SelectSeq(a, LAMBDA t : t.id # id)
  IN  Reheap(kept, Len(kept) \div 2)

\* this.timers
TimerHas(s, id) == \E t \in s.timers : t.id = id
TimerGet(s, id) == CHOOSE t \in s.timers : t.id = id
TimerSet(s, task) == { t \in s.timers : t.id # task.id } \cup {task}

NewTimer(concurrency) ==
  [ maxConcurrency |-> concurrency,   \* this.opts.maxConcurrency
    now |-> 0,
    timers |-> {},        \* this.timers
    heap |-> <<>>,        \* this.heap
    buckets |-> {},       \* the bucket alarms: [m, when]
    alarms |-> {},        \* the alarms of single tasks: [id, when]
    queue |-> <<>>,       \* AsyncQueue.queue: indices into jobs
    running |-> 0,        \* AsyncQueue.running
    jobs |-> <<>>,        \* the jobs pushed that have not ended
    cancelled |-> {},     \* the ids cancel(id) was called for
    scheduled |-> 0 ]     \* the number of schedule() calls

\* ensureBucketAlarm(m)
EnsureBucketAlarm(s, m) ==
  LET nextWhen == nextBucketWhenMs(s.now, m, BUCKET_SKEW_TOLERANCE_MS)
      existing == { b \in s.buckets : b.m = m }
  IN  IF existing = {} \/ \E b \in existing : Abs(b.when - nextWhen) > 1000
      THEN [s EXCEPT !.buckets = (@ \ existing) \cup
                                   {[m |-> m, when |-> nextWhen]}]
      ELSE s

\* createChromeAlarm(task)
CreateChromeAlarm(s, task) ==
  LET when == s.now + MaxOf(task.due - s.now, MIN_GRANULARITY_MS)
      existing == { a \in s.alarms : a.id = task.id }
  IN  IF existing = {} \/ \E a \in existing : Abs(a.when - when) > 1000
      THEN [s EXCEPT !.alarms = (@ \ existing) \cup
                                  {[id |-> task.id, when |-> when]}]
      ELSE s

\* scheduleNextTick() with bucket alarms, the timer not being paused
RECURSIVE ScheduleNextTick(_, _)
ScheduleNextTick(s, i) ==
  IF i > Len(bucketMinutes) THEN s
  ELSE LET m == bucketMinutes[i]
       IN  IF \E t \in s.timers : fitsBucket(t.due, m, BUCKET_SKEW_TOLERANCE_MS)
           THEN ScheduleNextTick(EnsureBucketAlarm(s, m), i + 1)
           ELSE ScheduleNextTick(s, i + 1)

\* the first bucket the due time fits: bucketMinutes.find(...)
MatchedBuckets(due) ==
  { i \in 1..Len(bucketMinutes) :
      /\ fitsBucket(due, bucketMinutes[i], BUCKET_SKEW_TOLERANCE_MS)
      /\ \A k \in 1..(i - 1) :
           ~fitsBucket(due, bucketMinutes[k], BUCKET_SKEW_TOLERANCE_MS) }

\* create(task)
Create(s, task) ==
  LET s1 == [s EXCEPT !.timers = TimerSet(s, task)]
  IN  IF MatchedBuckets(task.due) # {}
      THEN EnsureBucketAlarm(
             [s1 EXCEPT !.heap = HeapPush(@, [id |-> task.id, due |-> task.due])],
             bucketMinutes[CHOOSE i \in MatchedBuckets(task.due) : TRUE])
      ELSE CreateChromeAlarm(s1, task)

\* the task schedule(options) builds
NewTask(s, id, options) ==
  LET kind == IF options.periodMs # 0 THEN "interval"
              ELSE IF options.whenMs # 0 THEN "at" ELSE "timeout"
      anchor == IF kind = "interval"
                THEN (IF options.whenMs # 0 THEN options.whenMs ELSE s.now)
                ELSE 0
      due == IF options.whenMs # 0 THEN options.whenMs
             ELSE IF kind = "interval"
             THEN anchor + CeilDiv(s.now - anchor, options.periodMs)
                           * options.periodMs
             ELSE s.now + options.delayMs
  IN  [id |-> id, kind |-> kind, due |-> due, periodMs |-> options.periodMs,
       anchor |-> anchor, plannedAtMs |-> <<>>]

\* what a job of enqueueJob does when it is run: the task is gone, or it
\* sleeps until plannedAtMs, or the tick handlers are called
RunJob(s, j) ==
  LET id == s.jobs[j].id
  IN  IF ~TimerHas(s, id)
      THEN [s EXCEPT !.jobs[j].pc = "ended"]
      ELSE LET task == TimerGet(s, id)
           IN  IF task.plannedAtMs # <<>> /\ task.plannedAtMs[1] - s.now > 0
               THEN [s EXCEPT !.jobs[j].pc = "sleeping",
                              !.jobs[j].wake = task.plannedAtMs[1],
                              !.jobs[j].start = s.now,
                              !.jobs[j].slot = TRUE,
                              !.running = @ + 1]
               ELSE [s EXCEPT !.jobs[j].pc = "handling",
                              !.jobs[j].task = <<task>>,
                              !.jobs[j].stale = id \in s.cancelled,
                              !.jobs[j].start = s.now,
                              !.jobs[j].slot = TRUE,
                              !.running = @ + 1]

\* AsyncQueue.drain(), with the microtasks of the jobs that end at once
RECURSIVE Drain(_)
Drain(s) ==
  IF s.running < s.maxConcurrency /\ s.queue # <<>>
  THEN Drain(RunJob([s EXCEPT !.queue = Tail(@)], Head(s.queue)))
  ELSE s

NewJob(id) ==
  [id |-> id, pc |-> "queued", wake |-> 0, start |-> 0, slot |-> FALSE,
   stale |-> FALSE, task |-> <<>>]

\* enqueueJob(taskId): AsyncQueue.push of the job
EnqueueJob(s, id) ==
  Drain([s EXCEPT !.jobs = Append(@, NewJob(id)),
                  !.queue = Append(@, Len(s.jobs) + 1)])

RECURSIVE EnqueueAll(_, _, _)
EnqueueAll(s, ids, n) ==
  IF n = 0 \/ ids = <<>> THEN s
  ELSE EnqueueAll(EnqueueJob(s, Head(ids)), Tail(ids), n - 1)

\* the dues of the tasks, each once, in ascending order
RECURSIVE SortedDues(_)
SortedDues(dues) ==
  IF dues = {} THEN <<>>
  ELSE LET d == CHOOSE x \in dues : \A y \in dues : x <= y
       IN  <<d>> \o SortedDues(dues \ {d})

IndexOf(seq, x) == CHOOSE i \in 1..Len(seq) : seq[i] = x

\* executeDue: the batch with drift; delays are the random delays in
\* ascending order, one for each due time
RECURSIVE PlanBatch(_, _, _, _)
PlanBatch(s, ids, delays, acc) ==
  IF ids = <<>> THEN [s |-> s, toEnqueue |-> acc.toEnqueue,
                      toReheap |-> acc.toReheap]
  ELSE LET task == TimerGet(s, Head(ids))
           uniqueDues == acc.uniqueDues
           plannedAt == task.due + delays[IndexOf(uniqueDues, task.due)]
           far == plannedAt - s.now >= MIN_GRANULARITY_MS
           planned == [task EXCEPT !.plannedAtMs = <<plannedAt>>,
                                   !.due = IF far THEN plannedAt ELSE @]
       IN  PlanBatch([s EXCEPT !.timers = TimerSet(s, planned)], Tail(ids),
                     delays,
                     [acc EXCEPT
                        !.toEnqueue = IF far THEN @ ELSE Append(@, task.id),
                        !.toReheap = IF far
                                     THEN Append(@, [id |-> task.id,
                                                     due |-> plannedAt])
                                     ELSE @])

RECURSIVE PushAll(_, _)
PushAll(a, items) ==
  IF items = <<>> THEN a ELSE PushAll(HeapPush(a, Head(items)), Tail(items))

\* executeDue(pendingTasks), the timer not being paused
ExecuteDue(s, pending, delays) ==
  LET live == SelectSeq(pending, LAMBDA id : TimerHas(s, id))
      isBatchDrift == \E i \in 1..Len(live) :
                        s.now - TimerGet(s, live[i]).due >= DRIFT_THRESHOLD_MS
      uniqueDues == SortedDues({ TimerGet(s, live[i]).due : i \in 1..Len(live) })
      plan == PlanBatch(s, live, delays,
                        [uniqueDues |-> uniqueDues, toEnqueue |-> <<>>,
                         toReheap |-> <<>>])
      reheaped == IF plan.toReheap = <<>> THEN plan.s
                  ELSE ScheduleNextTick(
                         [plan.s EXCEPT !.heap = PushAll(@, plan.toReheap)], 1)
      inTolerance == SelectSeq(live, LAMBDA id :
                       Abs(TimerGet(s, id).due - s.now)
                         <= BUCKET_SKEW_TOLERANCE_MS)
  IN  IF live = <<>> THEN s
      ELSE IF isBatchDrift
      THEN EnqueueAll(reheaped, plan.toEnqueue,
                      MinOf(Len(plan.toEnqueue), s.maxConcurrency))
      ELSE EnqueueAll(s, inTolerance,
                      MinOf(Len(inTolerance), s.maxConcurrency))

\* onBucketTick: the tasks taken off the heap
RECURSIVE PopDue(_, _, _)
PopDue(s, horizon, dueSet) ==
  IF s.heap # <<>> /\ s.heap[1].due <= horizon
  THEN LET item == s.heap[1]
       IN  PopDue([s EXCEPT !.heap = HeapPop(@)], horizon,
                  IF TimerHas(s, item.id) THEN Append(dueSet, item.id)
                  ELSE dueSet)
  ELSE [s |-> s, dueSet |-> dueSet]

\* the random delays of a batch: ascending, one for each due time
BatchDelays ==
  { d \in [1..MaxTasks -> {RESCHED_MIN_DELAY_MS, RESCHED_MAX_DELAY_MS}] :
      \A i \in 1..(MaxTasks - 1) : d[i] <= d[i + 1] }

\* cancel(id) with bucket alarms
CancelTask(s, id) ==
  [s EXCEPT !.timers = { t \in @ : t.id # id },
            !.heap = HeapRemoveId(@, id)]

\* afterRun(task)
AfterRun(s, task) ==
  IF task.kind = "interval"
  THEN LET period == task.periodMs
           k == CeilDiv(s.now - task.anchor + 1, period)
           nextDue == MaxOf(task.anchor + k * period, s.now)
           next == [task EXCEPT !.due = nextDue, !.plannedAtMs = <<>>]
       IN  ScheduleNextTick(
             [s EXCEPT !.timers = TimerSet(s, next),
                       !.heap = HeapPush(@, [id |-> task.id,
                                             due |-> nextDue])], 1)
  ELSE CancelTask(s, task.id)

\* the finally of AsyncQueue's run: the slot is given back, drain() runs
RunFinally(s, j) ==
  IF s.jobs[j].slot
  THEN Drain([s EXCEPT !.jobs[j].slot = FALSE, !.running = @ - 1])
  ELSE s

\* the jobs that ended are forgotten; the queue keeps its order
Forget(s) ==
  LET live == { j \in 1..Len(s.jobs) : s.jobs[j].pc # "ended" }
      Rank(j) == Cardinality({ k \in live : k <= j })
  IN  [s EXCEPT !.jobs = SelectSeq(s.jobs, LAMBDA job : job.pc # "ended"),
                !.queue = [i \in 1..Len(s.queue) |-> Rank(s.queue[i])]]

timerRest ==
  <<permVars, connectVars, netVars, dnr, tx, fx, conn, rp, cd, bx, nx, mg>>

TimerInit ==
  /\ PermInit
  /\ ConnectIdle
  /\ NetIdle
  /\ dnr = <<>> /\ tx = <<>> /\ fx = <<>> /\ conn = <<>> /\ rp = <<>>
  /\ cd = <<>> /\ bx = <<>> /\ nx = <<>> /\ mg = <<>>
  /\ \E concurrency \in Concurrencies : et = NewTimer(concurrency)

\* schedule(options) with an id of uid()
Schedule(options) ==
  /\ et.scheduled < MaxTasks
  /\ et' = Forget(Create([et EXCEPT !.scheduled = @ + 1],
                         NewTask(et, TaskIds[et.scheduled + 1], options)))
  /\ UNCHANGED timerRest

\* cancel(id)
Cancel(id) ==
  /\ TimerHas(et, id)
  /\ et' = [CancelTask(et, id) EXCEPT !.cancelled = @ \cup {id}]
  /\ UNCHANGED timerRest

\* the clock moves on
Advance(d) ==
  /\ et.now + d <= MaxNow
  /\ et' = [et EXCEPT !.now = @ + d]
  /\ UNCHANGED timerRest

\* a bucket alarm fires, in time or late: onBucketTick
OnBucketTick(b, delays) ==
  /\ b \in et.buckets
  /\ et.now >= b.when
  /\ LET s0 == [et EXCEPT !.buckets =
                  (@ \ {b}) \cup {[b EXCEPT !.when = @ + b.m * 60000]}]
         popped == PopDue(s0, s0.now + BUCKET_SKEW_TOLERANCE_MS, <<>>)
     IN  et' = Forget(ScheduleNextTick(
                        ExecuteDue(popped.s, popped.dueSet, delays), 1))
  /\ UNCHANGED timerRest

\* the alarm of a single task fires: onAlarmListener
OnTaskAlarm(a, delays) ==
  /\ a \in et.alarms
  /\ et.now >= a.when
  /\ LET s0 == [et EXCEPT !.alarms = @ \ {a}]
     IN  et' = IF TimerHas(s0, a.id)
               THEN Forget(ExecuteDue(s0, <<a.id>>, delays))
               ELSE s0
  /\ UNCHANGED timerRest

\* a job that slept until plannedAtMs goes on
JobWake(j) ==
  /\ j \in 1..Len(et.jobs)
  /\ et.jobs[j].pc = "sleeping"
  /\ et.now >= et.jobs[j].wake
  /\ et' = IF ~TimerHas(et, et.jobs[j].id)
           THEN Forget(RunFinally([et EXCEPT !.jobs[j].pc = "ended"], j))
           ELSE [et EXCEPT !.jobs[j].pc = "handling",
                           !.jobs[j].task = <<TimerGet(et, et.jobs[j].id)>>,
                           !.jobs[j].stale = et.jobs[j].id \in et.cancelled]
  /\ UNCHANGED timerRest

\* the tick handlers of a job have ended: afterRun, then the job ends
HandlersDone(j) ==
  /\ j \in 1..Len(et.jobs)
  /\ et.jobs[j].pc = "handling"
  /\ et' = Forget(RunFinally(
                      AfterRun([et EXCEPT !.jobs[j].pc = "ended"],
                               et.jobs[j].task[1]), j))
  /\ UNCHANGED timerRest

\* the watchdog of a running job fires: the job goes on, its slot is free
Watchdog(j) ==
  /\ j \in 1..Len(et.jobs)
  /\ et.jobs[j].slot
  /\ et.now >= et.jobs[j].start + HANDLER_TIMEOUT_MS
  /\ et' = Forget(RunFinally(et, j))
  /\ UNCHANGED timerRest

TimerNext ==
  \/ \E options \in ScheduleOptions : Schedule(options)
  \/ \E t \in et.timers : Cancel(t.id)
  \/ \E d \in ClockSteps : Advance(d)
  \/ \E b \in et.buckets : \E delays \in BatchDelays : OnBucketTick(b, delays)
  \/ \E a \in et.alarms : \E delays \in BatchDelays : OnTaskAlarm(a, delays)
  \/ \E j \in 1..Len(et.jobs) : JobWake(j)
  \/ \E j \in 1..Len(et.jobs) : HandlersDone(j)
  \/ \E j \in 1..Len(et.jobs) : Watchdog(j)

TimerSpec == TimerInit /\ [][TimerNext]_vars

\* the jobs that were started and have not ended
RunningJobs == { j \in 1..Len(et.jobs) : et.jobs[j].pc \in {"sleeping", "handling"} }

\* the jobs that are queued or running for a task
JobsOf(id) ==
  { j \in 1..Len(et.jobs) :
      et.jobs[j].id = id /\ et.jobs[j].pc \in {"queued", "sleeping", "handling"} }

\* C38: every task in the timers map that no job is queued or running for
\* and that has no alarm of its own is in the heap, where a later tick
\* finds it
C38_AwaitingInHeap ==
  \A t \in et.timers :
    (JobsOf(t.id) = {} /\ ~(\E a \in et.alarms : a.id = t.id))
    => \E i \in 1..Len(et.heap) : et.heap[i].id = t.id

\* C39: at no time are more than maxConcurrency jobs running, a job that
\* outlives its watchdog included
C39_AtMostLimitRunning == Cardinality(RunningJobs) <= et.maxConcurrency

\* the counter of AsyncQueue stays within the limit
RunningWithinLimit == et.running <= et.maxConcurrency

\* C40: the tick handlers are not called for an id after cancel(id)
C40_NoTickAfterCancel ==
  \A j \in 1..Len(et.jobs) : ~et.jobs[j].stale

====
